---- MODULE Spec2Model ----
(***************************************************************************)
(* Model of the tinybird client library.                                   *)
(*                                                                         *)
(*   - the request executor of internal/httpclient (executeWithRetry,      *)
(*     executeRawWithRetry, handleResponse) as a state machine, one action *)
(*     per step of the retry loop;                                         *)
(*   - the endpoint operations SendEvents, Analyze and CallEndpoint of     *)
(*     package tinybird, each as one action against the transport          *)
(*     interface (httpclient.Client), which records the calls it receives; *)
(*   - the constructors NewClientOptions and DefaultClientOptions;         *)
(*   - the query encoder StructToQueryParams;                              *)
(*   - calls of the executor running concurrently on one client;           *)
(*   - the requests of one call, for every shape of request, and the two   *)
(*     executors answered alike, one after the other.                      *)
(***************************************************************************)
EXTENDS Integers, Sequences, FiniteSets, TLC

VARIABLES
    config,     \* httpclient.Config of the client: MaxRetries, RetryDelay, Token, UserAgent
    call,       \* arguments of the executor call in progress
    pc,         \* position of the executor: "loop", "request", "do", "handle", "done"
    attempt,    \* the loop variable `attempt`
    lastErr,    \* the local `lastErr` (an error chain, <<>> is nil)
    req,        \* the request built for the current attempt
    resp,       \* the response of the latest attempt that got one
    ret,        \* the error the executor returned (meaningful when pc = "done")
    cancelled,  \* whether the caller's context is cancelled
    outcomes,   \* history: what httpClient.Do returned, one entry per Do call
    slept,      \* history: the durations passed to time.Sleep, in order
    bodyReader, \* the local `body`: the reader over bodyBytes, and how far it was read
    sent,       \* history: the request each Do call was handed, as the server reads it
    bodies,     \* history: the response bodies obtained, each "open" or "closed"
    options,    \* tinybird.ClientOptions of the facade: Protocol, Host, ApiVersion
    opIn,       \* the endpoint operation last invoked and its arguments
    transport,  \* the calls that operation made on the transport (httpclient.Client)
    opRet,      \* what that operation returned: response and error
    resultTarget, \* what the decode target the caller handed to CallEndpoint holds
    frames      \* the other calls on the client, each with its arguments,
                \* position, locals and history: the goroutines running
                \* concurrently, or the call that ran before this one

execVars == <<config, call, pc, attempt, lastErr, req, resp, ret, cancelled,
              outcomes, slept, bodyReader, sent, bodies>>
opVars == <<options, opIn, transport, opRet, resultTarget>>
vars == <<config, call, pc, attempt, lastErr, req, resp, ret, cancelled,
          outcomes, slept, bodyReader, sent, bodies, options, opIn, transport,
          opRet, resultTarget, frames>>

(***************************************************************************)
(* Bounds of the model.                                                    *)
(***************************************************************************)
MaxRetriesBound == 2      \* Config.MaxRetries ranges over -1..MaxRetriesBound
MaxNameLen == 2           \* longest datasource name / analyze URL, in characters
MaxDataLen == 2           \* longest event payload, in bytes
MaxOptions == 2           \* most option functions passed to NewClientOptions
MaxElems == 2             \* longest slice held by a struct field
MaxCalls == 2             \* calls running concurrently on one client

(***************************************************************************)
(* Errors.  A Go error is modelled by its chain: the outermost message     *)
(* first, then what it wraps (%w).  nil is the empty chain.                *)
(***************************************************************************)
NilErr == <<>>

ErrorOf(msg) == [msg |-> msg, status |-> 0, body |-> ""]

\* errors.New(msg) / a leaf error
NewError(msg) == <<ErrorOf(msg)>>

\* fmt.Errorf(msg + ": %w", err); wrapping nil prints %!w(<nil>) and wraps nothing
Errorf(msg, err) == <<ErrorOf(msg)>> \o err

\* whether the chain carries the given message at its head
HeadIs(err, msg) == err # NilErr /\ Head(err).msg = msg

(***************************************************************************)
(* The request executor (internal/httpclient).                             *)
(***************************************************************************)
StatusNoContent == 204
StatusTooManyRequests == 429

\* Status codes a response may carry: each class of the classification and
\* its edges.
Statuses == {100, 200, 204, 302, 400, 404, 429, 499, 500, 599, 600}

\* Response bodies: empty, JSON that decodes into the result target, and
\* text that does not.
ResponseBodies == {"", "{}", "<html>"}

\* json.Unmarshal(body, result) succeeds
Unmarshals(body) == body = "{}"

\* Errors httpClient.Do returns while the context is live: a connection
\* failure, and the client's Timeout expiring.
TransportErrors == {"connection refused", "Client.Timeout exceeded"}

\* http.Client.Do on a request whose context is already cancelled returns
\* the context's error without a response.
DoErrors == IF cancelled THEN {"context canceled"} ELSE TransportErrors

NoRequest == [method |-> "", body |-> <<>>, header |-> {}]
NoResponse == [status |-> 0, body |-> "", open |-> FALSE, read |-> "unread"]

\* fmt.Errorf("HTTP %d: %s - %s", ...) or, with an empty body, "HTTP %d: %s"
HTTPError(status, body) == <<[msg |-> "HTTP", status |-> status, body |-> body]>>

\* handleResponse: readOK is whether io.ReadAll(resp.Body) succeeded
handleResponse(status, body, readOK, resultNil) ==
    IF ~readOK
    THEN Errorf("failed to read response body", NewError("read error"))
    ELSE IF status >= 200 /\ status < 300
         THEN IF ~resultNil /\ status # StatusNoContent /\ body # ""
                 /\ ~Unmarshals(body)
              THEN Errorf("failed to unmarshal response", NewError("invalid character"))
              ELSE NilErr
         ELSE HTTPError(status, body)

\* what Do returned, as recorded in the history
DoOutcome(kind, err, status) ==
    [kind |-> kind, err |-> err, status |-> status, cancelled |-> cancelled]

\* a call of time.Sleep, as recorded in the history
SleepOf(d) == [d |-> d, cancelled |-> cancelled]

(* Request bodies and response bodies *)

\* `var body io.Reader`: nil, a reader over no bytes
NilReader == [bytes |-> <<>>, off |-> 0]

\* bytes.NewReader(b): a reader positioned at the first byte
NewReader(b) == [bytes |-> b, off |-> 0]

\* what is left to read from a reader
Reader_Rest(r) == SubSeq(r.bytes, r.off + 1, Len(r.bytes))

\* the reader after the transport read it to its end
Reader_Drained(r) == [r EXCEPT !.off = Len(r.bytes)]

\* the request Do is handed: the server gets what is left in its body reader
Do_Sent == [method |-> req.method, body |-> Reader_Rest(bodyReader), header |-> req.header]

\* resp.Body.Close() on the response obtained last
Body_Close(bs) == [bs EXCEPT ![Len(bs)] = "closed"]

(* executeWithRetry *)

\* a faulty variant: the reader of the first attempt is kept for the retries
executeWithRetry_Body_Reused ==
    IF attempt > 0 THEN bodyReader
    ELSE IF Len(call.bodyBytes) > 0 THEN NewReader(call.bodyBytes) ELSE NilReader

\* the body of a fresh request: bytes.NewReader(bodyBytes), or nil without bytes
executeWithRetry_Body ==
    IF Len(call.bodyBytes) > 0 THEN NewReader(call.bodyBytes) ELSE NilReader

\* a faulty variant: the loop stops one attempt early
executeWithRetry_Continue_OffByOne(a) == a < config.MaxRetries

\* the loop condition: attempt <= c.config.MaxRetries
executeWithRetry_Continue(a) == a <= config.MaxRetries

\* a faulty variant: the same delay before every retry
executeWithRetry_Backoff_Constant(a) == config.RetryDelay

\* the backoff before attempt a: c.config.RetryDelay * time.Duration(attempt)
executeWithRetry_Backoff(a) == config.RetryDelay * a

\* the headers set on each request
executeWithRetry_Header ==
    (IF Len(call.bodyBytes) > 0 THEN {<<"Content-Type", "application/json">>} ELSE {})
    \cup {<<"User-Agent", config.UserAgent>>}
    \cup (IF config.Token # "" THEN {<<"Authorization", "Bearer " \o config.Token>>} ELSE {})

\* "Don't retry on client errors (4xx except 429)"
executeWithRetry_ClientError(status) ==
    status >= 400 /\ status < 500 /\ status # StatusTooManyRequests

\* a faulty variant: a plain 500 is not retried
executeWithRetry_Retry_Above500(status) ==
    status > 500 \/ status = StatusTooManyRequests

\* a faulty variant: everything that is not a client error is retried
executeWithRetry_Retry_NonClient(status) ==
    status < 400 \/ status >= 500 \/ status = StatusTooManyRequests

\* "Retry on server errors (5xx) and rate limiting (429)"
executeWithRetry_Retry(status) ==
    status >= 500 \/ status = StatusTooManyRequests

\* the loop test, the backoff sleep, and the return after the loop
executeWithRetry_Loop ==
    /\ call.path = "structured" /\ pc = "loop"
    /\ IF executeWithRetry_Continue(attempt)
       THEN /\ slept' = IF attempt > 0
                        THEN Append(slept, SleepOf(executeWithRetry_Backoff(attempt)))
                        ELSE slept
            /\ pc' = "request"
            /\ ret' = ret
       ELSE /\ pc' = "done"
            /\ ret' = Errorf("max retries exceeded", lastErr)
            /\ slept' = slept
    /\ UNCHANGED <<config, call, attempt, lastErr, req, resp, cancelled, outcomes>>
    /\ UNCHANGED <<bodyReader, sent, bodies>>
    /\ UNCHANGED <<opVars, frames>>

\* http.NewRequestWithContext and the headers
executeWithRetry_Request ==
    /\ call.path = "structured" /\ pc = "request"
    /\ IF call.urlValid
       THEN /\ req' = [method |-> call.method, body |-> call.bodyBytes,
                       header |-> executeWithRetry_Header]
            /\ pc' = "do"
            /\ ret' = ret
       ELSE /\ pc' = "done"
            /\ ret' = Errorf("failed to create request", NewError("parse error"))
            /\ req' = req
    /\ UNCHANGED <<config, call, attempt, lastErr, resp, cancelled, outcomes, slept>>
    /\ bodyReader' = executeWithRetry_Body
    /\ UNCHANGED <<sent, bodies>>
    /\ UNCHANGED <<opVars, frames>>

\* c.httpClient.Do returns an error: record it and continue
executeWithRetry_DoError ==
    /\ call.path = "structured" /\ pc = "do"
    /\ \E e \in DoErrors :
        /\ lastErr' = Errorf("request failed", NewError(e))
        /\ outcomes' = Append(outcomes, DoOutcome("error", e, 0))
    /\ attempt' = attempt + 1
    /\ pc' = "loop"
    /\ UNCHANGED <<config, call, req, resp, ret, cancelled, slept>>
    /\ sent' = Append(sent, Do_Sent)
    /\ bodyReader' = Reader_Drained(bodyReader)
    /\ UNCHANGED bodies
    /\ UNCHANGED <<opVars, frames>>

\* c.httpClient.Do returns a response
executeWithRetry_DoResponse ==
    /\ call.path = "structured" /\ pc = "do"
    /\ ~cancelled
    /\ \E s \in Statuses, b \in ResponseBodies :
        /\ resp' = [status |-> s, body |-> b, open |-> TRUE, read |-> "unread"]
        /\ outcomes' = Append(outcomes, DoOutcome("response", "", s))
    /\ pc' = "handle"
    /\ UNCHANGED <<config, call, attempt, lastErr, req, ret, cancelled, slept>>
    /\ sent' = Append(sent, Do_Sent)
    /\ bodyReader' = Reader_Drained(bodyReader)
    /\ bodies' = Append(bodies, "open")
    /\ UNCHANGED <<opVars, frames>>

\* a faulty variant: every failed response is retried, whatever its status
executeWithRetry_Handle_RetryAll ==
    /\ call.path = "structured" /\ pc = "handle"
    /\ \E readOK \in BOOLEAN :
        LET err == handleResponse(resp.status, resp.body, readOK, call.resultNil) IN
        /\ lastErr' = err
        /\ resp' = [resp EXCEPT !.open = FALSE,
                                !.read = IF readOK THEN "ok" ELSE "failed"]
        /\ IF err = NilErr
           THEN pc' = "done" /\ ret' = NilErr /\ attempt' = attempt
           ELSE pc' = "loop" /\ ret' = ret /\ attempt' = attempt + 1
    /\ UNCHANGED <<config, call, req, cancelled, outcomes, slept>>
    /\ bodies' = Body_Close(bodies)
    /\ UNCHANGED <<bodyReader, sent>>
    /\ UNCHANGED <<opVars, frames>>

\* a faulty variant: the body is closed only when the call returns
executeWithRetry_Handle_LeakOnRetry ==
    /\ call.path = "structured" /\ pc = "handle"
    /\ \E readOK \in BOOLEAN :
        LET err == handleResponse(resp.status, resp.body, readOK, call.resultNil)
            retry == /\ err # NilErr
                     /\ ~executeWithRetry_ClientError(resp.status)
                     /\ executeWithRetry_Retry(resp.status)
        IN
        /\ lastErr' = err
        /\ resp' = [resp EXCEPT !.open = retry,
                                !.read = IF readOK THEN "ok" ELSE "failed"]
        /\ bodies' = IF retry THEN bodies ELSE Body_Close(bodies)
        /\ IF retry
           THEN pc' = "loop" /\ ret' = ret /\ attempt' = attempt + 1
           ELSE pc' = "done" /\ ret' = err /\ attempt' = attempt
    /\ UNCHANGED <<config, call, req, cancelled, outcomes, slept>>
    /\ UNCHANGED <<bodyReader, sent>>
    /\ UNCHANGED <<opVars, frames>>

\* handleResponse, resp.Body.Close, and the decision to return or retry
executeWithRetry_Handle ==
    /\ call.path = "structured" /\ pc = "handle"
    /\ \E readOK \in BOOLEAN :
        LET err == handleResponse(resp.status, resp.body, readOK, call.resultNil) IN
        /\ lastErr' = err
        /\ resp' = [resp EXCEPT !.open = FALSE,
                                !.read = IF readOK THEN "ok" ELSE "failed"]
        /\ IF err = NilErr
           THEN pc' = "done" /\ ret' = NilErr /\ attempt' = attempt
           ELSE IF executeWithRetry_ClientError(resp.status)
           THEN pc' = "done" /\ ret' = err /\ attempt' = attempt
           ELSE IF executeWithRetry_Retry(resp.status)
           THEN pc' = "loop" /\ ret' = ret /\ attempt' = attempt + 1
           ELSE pc' = "done" /\ ret' = err /\ attempt' = attempt
    /\ UNCHANGED <<config, call, req, cancelled, outcomes, slept>>
    /\ bodies' = Body_Close(bodies)
    /\ UNCHANGED <<bodyReader, sent>>
    /\ UNCHANGED <<opVars, frames>>

(* executeRawWithRetry *)

\* the body of a fresh request: bytes.NewReader(bodyBytes), or nil without bytes
executeRawWithRetry_Body ==
    IF Len(call.bodyBytes) > 0 THEN NewReader(call.bodyBytes) ELSE NilReader

\* a faulty variant: the first attempt is made whatever MaxRetries is
executeRawWithRetry_Continue_AtLeastOnce(a) == a = 0 \/ a <= config.MaxRetries

\* the loop condition: attempt <= c.config.MaxRetries
executeRawWithRetry_Continue(a) == a <= config.MaxRetries

\* the backoff before attempt a: c.config.RetryDelay * time.Duration(attempt)
executeRawWithRetry_Backoff(a) == config.RetryDelay * a

\* a faulty variant: the content type is set as in the structured path
executeRawWithRetry_Header_JsonBody ==
    (IF Len(call.bodyBytes) > 0 THEN {<<"Content-Type", "application/json">>} ELSE {})
    \cup (IF call.contentEncoding # ""
          THEN {<<"Content-Encoding", call.contentEncoding>>} ELSE {})
    \cup (IF config.Token # "" THEN {<<"Authorization", "Bearer " \o config.Token>>} ELSE {})
    \cup {<<"User-Agent", config.UserAgent>>}

\* the headers set on each request
executeRawWithRetry_Header ==
    (IF call.contentType # "" THEN {<<"Content-Type", call.contentType>>} ELSE {})
    \cup (IF call.contentEncoding # ""
          THEN {<<"Content-Encoding", call.contentEncoding>>} ELSE {})
    \cup (IF config.Token # "" THEN {<<"Authorization", "Bearer " \o config.Token>>} ELSE {})
    \cup {<<"User-Agent", config.UserAgent>>}

\* "Don't retry on client errors (4xx except 429)"
executeRawWithRetry_ClientError(status) ==
    status >= 400 /\ status < 500 /\ status # StatusTooManyRequests

\* a faulty variant: rate limiting is not retried
executeRawWithRetry_Retry_ServerOnly(status) ==
    status >= 500

\* "Retry on server errors (5xx) and rate limiting (429)"
executeRawWithRetry_Retry(status) ==
    status >= 500 \/ status = StatusTooManyRequests

\* the loop test, the backoff sleep, and the return after the loop
executeRawWithRetry_Loop ==
    /\ call.path = "raw" /\ pc = "loop"
    /\ IF executeRawWithRetry_Continue(attempt)
       THEN /\ slept' = IF attempt > 0
                        THEN Append(slept, SleepOf(executeRawWithRetry_Backoff(attempt)))
                        ELSE slept
            /\ pc' = "request"
            /\ ret' = ret
       ELSE /\ pc' = "done"
            /\ ret' = Errorf("max retries exceeded", lastErr)
            /\ slept' = slept
    /\ UNCHANGED <<config, call, attempt, lastErr, req, resp, cancelled, outcomes>>
    /\ UNCHANGED <<bodyReader, sent, bodies>>
    /\ UNCHANGED <<opVars, frames>>

\* http.NewRequestWithContext and the headers
executeRawWithRetry_Request ==
    /\ call.path = "raw" /\ pc = "request"
    /\ IF call.urlValid
       THEN /\ req' = [method |-> call.method, body |-> call.bodyBytes,
                       header |-> executeRawWithRetry_Header]
            /\ pc' = "do"
            /\ ret' = ret
       ELSE /\ pc' = "done"
            /\ ret' = Errorf("failed to create request", NewError("parse error"))
            /\ req' = req
    /\ UNCHANGED <<config, call, attempt, lastErr, resp, cancelled, outcomes, slept>>
    /\ bodyReader' = executeRawWithRetry_Body
    /\ UNCHANGED <<sent, bodies>>
    /\ UNCHANGED <<opVars, frames>>

\* c.httpClient.Do returns an error: record it and continue
executeRawWithRetry_DoError ==
    /\ call.path = "raw" /\ pc = "do"
    /\ \E e \in DoErrors :
        /\ lastErr' = Errorf("request failed", NewError(e))
        /\ outcomes' = Append(outcomes, DoOutcome("error", e, 0))
    /\ attempt' = attempt + 1
    /\ pc' = "loop"
    /\ UNCHANGED <<config, call, req, resp, ret, cancelled, slept>>
    /\ sent' = Append(sent, Do_Sent)
    /\ bodyReader' = Reader_Drained(bodyReader)
    /\ UNCHANGED bodies
    /\ UNCHANGED <<opVars, frames>>

\* c.httpClient.Do returns a response
executeRawWithRetry_DoResponse ==
    /\ call.path = "raw" /\ pc = "do"
    /\ ~cancelled
    /\ \E s \in Statuses, b \in ResponseBodies :
        /\ resp' = [status |-> s, body |-> b, open |-> TRUE, read |-> "unread"]
        /\ outcomes' = Append(outcomes, DoOutcome("response", "", s))
    /\ pc' = "handle"
    /\ UNCHANGED <<config, call, attempt, lastErr, req, ret, cancelled, slept>>
    /\ sent' = Append(sent, Do_Sent)
    /\ bodyReader' = Reader_Drained(bodyReader)
    /\ bodies' = Append(bodies, "open")
    /\ UNCHANGED <<opVars, frames>>

\* handleResponse, resp.Body.Close, and the decision to return or retry
executeRawWithRetry_Handle ==
    /\ call.path = "raw" /\ pc = "handle"
    /\ \E readOK \in BOOLEAN :
        LET err == handleResponse(resp.status, resp.body, readOK, call.resultNil) IN
        /\ lastErr' = err
        /\ resp' = [resp EXCEPT !.open = FALSE,
                                !.read = IF readOK THEN "ok" ELSE "failed"]
        /\ IF err = NilErr
           THEN pc' = "done" /\ ret' = NilErr /\ attempt' = attempt
           ELSE IF executeRawWithRetry_ClientError(resp.status)
           THEN pc' = "done" /\ ret' = err /\ attempt' = attempt
           ELSE IF executeRawWithRetry_Retry(resp.status)
           THEN pc' = "loop" /\ ret' = ret /\ attempt' = attempt + 1
           ELSE pc' = "done" /\ ret' = err /\ attempt' = attempt
    /\ UNCHANGED <<config, call, req, cancelled, outcomes, slept>>
    /\ bodies' = Body_Close(bodies)
    /\ UNCHANGED <<bodyReader, sent>>
    /\ UNCHANGED <<opVars, frames>>

(* The caller's context *)

\* the caller cancels the context (or its deadline passes) while the call runs
Cancel ==
    /\ pc # "done"
    /\ ~cancelled
    /\ cancelled' = TRUE
    /\ UNCHANGED <<config, call, pc, attempt, lastErr, req, resp, ret, outcomes, slept>>
    /\ UNCHANGED <<bodyReader, sent, bodies>>
    /\ UNCHANGED <<opVars, frames>>

(***************************************************************************)
(* Specification of the executor: one call of executeWithRetry or          *)
(* executeRawWithRetry, from its entry to its return.                      *)
(***************************************************************************)
UserAgent == "com.nollywood/tinybirdclient/0.2.0"

\* Config.RetryDelay, in time units
RetryDelays == {1, 2}

Configs ==
    [MaxRetries : (0 - 1)..MaxRetriesBound, RetryDelay : RetryDelays,
     Token : {"", "p.token"}, UserAgent : {UserAgent}]

\* a JSON body as json.Marshal leaves it, and none
RequestBodies == {<<>>, <<123, 125>>}

StructuredCalls ==
    [path : {"structured"}, method : {"GET", "POST"}, urlValid : BOOLEAN,
     bodyBytes : RequestBodies, contentType : {""}, contentEncoding : {""},
     resultNil : BOOLEAN]

RawCalls ==
    [path : {"raw"}, method : {"POST"}, urlValid : BOOLEAN,
     bodyBytes : RequestBodies, contentType : {"", "application/x-ndjson"},
     contentEncoding : {"", "gzip"}, resultNil : BOOLEAN]

IdleOptions == [Protocol |-> "https", Host |-> "api.tinybird.co", ApiVersion |-> "v0"]
NoOp == [op |-> "none", name |-> <<>>, data |-> <<>>, options |-> <<>>, input |-> <<>>]
NoReturn == [response |-> <<>>, err |-> NilErr]

\* the zero value of EndpointResponse
EndpointResponse_Zero ==
    [Meta |-> <<>>, Data |-> <<>>, Rows |-> 0, RowsBeforeLimit |-> 0,
     Stats |-> [Elapsed |-> 0, RowsRead |-> 0, BytesRead |-> 0]]

OpIdle ==
    /\ options = IdleOptions
    /\ opIn = NoOp
    /\ transport = <<>>
    /\ opRet = NoReturn
    /\ resultTarget = EndpointResponse_Zero
    /\ frames = <<>>

\* Calls that go through retries are explored for one request shape per
\* executor; the retry loop reads none of the fields fixed here.
RetryShape(cfg, c) ==
    /\ cfg.Token # ""
    /\ c.method = "POST"
    /\ c.urlValid
    /\ Len(c.bodyBytes) > 0
    /\ c.path = "raw" => c.contentType # "" /\ c.contentEncoding # ""

ExecInit ==
    /\ config \in Configs
    /\ call \in StructuredCalls \cup RawCalls
    /\ config.MaxRetries > 0 => RetryShape(config, call)
    /\ pc = "loop"
    /\ attempt = 0
    /\ lastErr = NilErr
    /\ req = NoRequest
    /\ resp = NoResponse
    /\ ret = NilErr
    /\ cancelled \in BOOLEAN
    /\ outcomes = <<>>
    /\ slept = <<>>
    /\ bodyReader = NilReader
    /\ sent = <<>>
    /\ bodies = <<>>

Init == ExecInit /\ OpIdle

Next ==
    \/ executeWithRetry_Loop
    \/ executeWithRetry_Request
    \/ executeWithRetry_DoError
    \/ executeWithRetry_DoResponse
    \/ executeWithRetry_Handle
    \/ executeRawWithRetry_Loop
    \/ executeRawWithRetry_Request
    \/ executeRawWithRetry_DoError
    \/ executeRawWithRetry_DoResponse
    \/ executeRawWithRetry_Handle
    \/ Cancel

Spec == Init /\ [][Next]_vars

(***************************************************************************)
(* Specification of the requests of one call: a call with one retry, for   *)
(* every shape of request the client's methods can hand to the executors,  *)
(* PostMultipart included.                                                 *)
(***************************************************************************)

\* the boundary multipart.NewWriter draws at random, as a byte and as text
Boundaries == {97, 98}
BoundaryText(b) == IF b = 97 THEN "a" ELSE "b"

\* writer.FormDataContentType()
FormDataContentType(boundary) == "multipart/form-data; boundary=" \o BoundaryText(boundary)

\* buf.Bytes() after CreateFormFile, Write and Close: the opening delimiter
\* (--boundary), the field and file names, the file data, and the closing
\* delimiter (--boundary--); 45 is "-"
MultipartBytes(boundary, fieldName, fileName, fileData) ==
    <<45, 45, boundary, fieldName, fileName>> \o fileData \o <<45, 45, boundary, 45, 45>>

\* PostMultipart: the form is written once, then executeRawWithRetry is
\* called with its bytes and its content type
PostMultipart(fieldName, fileName, fileData, boundary, urlValid, resultNil) ==
    [path |-> "raw", method |-> "POST", urlValid |-> urlValid,
     bodyBytes |-> MultipartBytes(boundary, fieldName, fileName, fileData),
     contentType |-> FormDataContentType(boundary), contentEncoding |-> "",
     resultNil |-> resultNil]

\* field and file names, as bytes of the form
FormNames == {102}

MultipartCalls ==
    {PostMultipart(fieldName, fileName, fileData, boundary, TRUE, resultNil) :
        fieldName \in FormNames, fileName \in FormNames, fileData \in RequestBodies,
        boundary \in Boundaries, resultNil \in BOOLEAN}

RequestConfigs == {c \in Configs : c.MaxRetries = 1 /\ c.RetryDelay = 1}

RequestInit ==
    /\ config \in RequestConfigs
    /\ call \in StructuredCalls \cup RawCalls \cup MultipartCalls
    /\ pc = "loop"
    /\ attempt = 0
    /\ lastErr = NilErr
    /\ req = NoRequest
    /\ resp = NoResponse
    /\ ret = NilErr
    /\ cancelled = FALSE
    /\ outcomes = <<>>
    /\ slept = <<>>
    /\ bodyReader = NilReader
    /\ sent = <<>>
    /\ bodies = <<>>
    /\ OpIdle

RequestSpec == RequestInit /\ [][Next]_vars

(***************************************************************************)
(* Specification of the two executors side by side: a call runs through    *)
(* executeWithRetry; then the same client runs the same method and bytes   *)
(* through executeRawWithRetry and its transport answers as it answered    *)
(* the first call: the same result of Do on each attempt and, on the       *)
(* attempt that ended the first call, the same body, read the same way.    *)
(***************************************************************************)

\* the call that ran first
FirstCall == frames[1]

\* Do returned what it returned on the same attempt of the first call
SameOutcome ==
    /\ Len(outcomes) <= Len(FirstCall.outcomes)
    /\ outcomes[Len(outcomes)] = FirstCall.outcomes[Len(outcomes)]

\* on the attempt that ended the first call the response has the same body
SameBody == Len(outcomes) = Len(FirstCall.outcomes) => resp.body = FirstCall.resp.body

\* and reading it succeeds or fails as it did then
SameReading == Len(outcomes) = Len(FirstCall.outcomes) => resp.read = FirstCall.resp.read

\* the first call has returned: keep its frame and enter executeRawWithRetry
\* with the same method, URL, bytes and result
Policy_Switch ==
    /\ call.path = "structured" /\ pc = "done" /\ frames = <<>>
    /\ frames' = <<[call |-> call, pc |-> pc, attempt |-> attempt, lastErr |-> lastErr,
                    req |-> req, resp |-> resp, ret |-> ret, outcomes |-> outcomes,
                    slept |-> slept, sent |-> sent]>>
    /\ call' = [call EXCEPT !.path = "raw", !.contentType = "application/x-ndjson",
                            !.contentEncoding = "gzip"]
    /\ pc' = "loop"
    /\ attempt' = 0
    /\ lastErr' = NilErr
    /\ req' = NoRequest
    /\ resp' = NoResponse
    /\ ret' = NilErr
    /\ outcomes' = <<>>
    /\ slept' = <<>>
    /\ bodyReader' = NilReader
    /\ sent' = <<>>
    /\ bodies' = <<>>
    /\ UNCHANGED <<config, cancelled, opVars>>

Policy_DoError == executeRawWithRetry_DoError /\ SameOutcome'
Policy_DoResponse == executeRawWithRetry_DoResponse /\ SameOutcome' /\ SameBody'
Policy_Handle == executeRawWithRetry_Handle /\ SameReading'

PolicyInit ==
    /\ config \in {c \in Configs : c.Token # ""}
    /\ call \in {c \in StructuredCalls : c.method = "POST" /\ Len(c.bodyBytes) > 0}
    /\ pc = "loop"
    /\ attempt = 0
    /\ lastErr = NilErr
    /\ req = NoRequest
    /\ resp = NoResponse
    /\ ret = NilErr
    /\ cancelled = FALSE
    /\ outcomes = <<>>
    /\ slept = <<>>
    /\ bodyReader = NilReader
    /\ sent = <<>>
    /\ bodies = <<>>
    /\ OpIdle

PolicyNext ==
    \/ executeWithRetry_Loop
    \/ executeWithRetry_Request
    \/ executeWithRetry_DoError
    \/ executeWithRetry_DoResponse
    \/ executeWithRetry_Handle
    \/ Policy_Switch
    \/ executeRawWithRetry_Loop
    \/ executeRawWithRetry_Request
    \/ Policy_DoError
    \/ Policy_DoResponse
    \/ Policy_Handle

PolicySpec == PolicyInit /\ [][PolicyNext]_vars

(***************************************************************************)
(* Concurrent calls.  Several goroutines call executeWithRetry on the same *)
(* client.  They share c.config and c.httpClient; each has its arguments   *)
(* and the locals of its own activation of the function.                   *)
(***************************************************************************)
Goroutines == 1..MaxCalls

\* a faulty variant: attempt and lastErr are kept in one place for all calls
FrameOf_Shared(g) == 1

\* where the locals `attempt` and `lastErr` of goroutine g's call live: in
\* its own activation
FrameOf(g) == g

\* what the concurrent calls are answered with: one transport error, a
\* status of each class of the classification, and a body that is read in
\* full and decodes
ConcurrentErrors == {"connection refused"}
ConcurrentStatuses == {200, 404, 500}
ConcurrentBodies == {"{}"}

\* the headers set on each request
Go_Header(bodyBytes) ==
    (IF Len(bodyBytes) > 0 THEN {<<"Content-Type", "application/json">>} ELSE {})
    \cup {<<"User-Agent", config.UserAgent>>}
    \cup (IF config.Token # "" THEN {<<"Authorization", "Bearer " \o config.Token>>} ELSE {})

\* the loop test, the backoff sleep, and the return after the loop
Go_Loop(g) ==
    /\ frames[g].pc = "loop"
    /\ LET a == frames[FrameOf(g)].attempt IN
       IF executeWithRetry_Continue(a)
       THEN frames' = [frames EXCEPT
                ![g].slept = IF a > 0 THEN Append(@, executeWithRetry_Backoff(a)) ELSE @,
                ![g].pc = "request"]
       ELSE frames' = [frames EXCEPT
                ![g].ret = Errorf("max retries exceeded", frames[FrameOf(g)].lastErr),
                ![g].pc = "done"]
    /\ UNCHANGED <<execVars, opVars>>

\* http.NewRequestWithContext and the headers
Go_Request(g) ==
    /\ frames[g].pc = "request"
    /\ frames' = [frames EXCEPT
            ![g].req = [method |-> frames[g].call.method,
                        body |-> frames[g].call.bodyBytes,
                        header |-> Go_Header(frames[g].call.bodyBytes)],
            ![g].pc = "do"]
    /\ UNCHANGED <<execVars, opVars>>

\* c.httpClient.Do returns an error: record it and continue
Go_DoError(g) ==
    /\ frames[g].pc = "do"
    /\ \E e \in ConcurrentErrors :
        frames' = [frames EXCEPT
            ![g].outcomes = Append(@, DoOutcome("error", e, 0)),
            ![g].pc = "loop",
            ![FrameOf(g)].lastErr = Errorf("request failed", NewError(e)),
            ![FrameOf(g)].attempt = @ + 1]
    /\ UNCHANGED <<execVars, opVars>>

\* c.httpClient.Do returns a response
Go_DoResponse(g) ==
    /\ frames[g].pc = "do"
    /\ \E s \in ConcurrentStatuses, b \in ConcurrentBodies :
        frames' = [frames EXCEPT
            ![g].resp = [status |-> s, body |-> b, open |-> TRUE, read |-> "unread"],
            ![g].outcomes = Append(@, DoOutcome("response", "", s)),
            ![g].pc = "handle"]
    /\ UNCHANGED <<execVars, opVars>>

\* handleResponse, resp.Body.Close, and the decision to return or retry
Go_Handle(g) ==
    /\ frames[g].pc = "handle"
    /\ \E readOK \in {TRUE} :
        LET r == frames[g].resp
            err == handleResponse(r.status, r.body, readOK, frames[g].call.resultNil)
            closed == [r EXCEPT !.open = FALSE,
                                !.read = IF readOK THEN "ok" ELSE "failed"]
        IN
        IF err = NilErr
        THEN frames' = [frames EXCEPT ![g].resp = closed, ![g].ret = NilErr,
                                      ![g].pc = "done",
                                      ![FrameOf(g)].lastErr = err]
        ELSE IF executeWithRetry_ClientError(r.status)
        THEN frames' = [frames EXCEPT ![g].resp = closed, ![g].ret = err,
                                      ![g].pc = "done",
                                      ![FrameOf(g)].lastErr = err]
        ELSE IF executeWithRetry_Retry(r.status)
        THEN frames' = [frames EXCEPT ![g].resp = closed, ![g].pc = "loop",
                                      ![FrameOf(g)].lastErr = err,
                                      ![FrameOf(g)].attempt = @ + 1]
        ELSE frames' = [frames EXCEPT ![g].resp = closed, ![g].ret = err,
                                      ![g].pc = "done",
                                      ![FrameOf(g)].lastErr = err]
    /\ UNCHANGED <<execVars, opVars>>

\* the arguments of a concurrent call
ConcurrentCalls ==
    [method : {"POST"}, bodyBytes : RequestBodies, resultNil : {FALSE}]

\* a goroutine at the entry of executeWithRetry
EntryFrame(c) ==
    [call |-> c, pc |-> "loop", attempt |-> 0, lastErr |-> NilErr, req |-> NoRequest,
     resp |-> NoResponse, ret |-> NilErr, outcomes |-> <<>>, slept |-> <<>>]

\* the client's configuration: one retry, so that a call sleeps once
ConcurrentConfigs ==
    {c \in Configs : c.MaxRetries = 1 /\ c.RetryDelay = 2 /\ c.Token # ""}

ConcurrentInit ==
    /\ config \in ConcurrentConfigs
    /\ call = [path |-> "none", method |-> "", urlValid |-> TRUE, bodyBytes |-> <<>>,
               contentType |-> "", contentEncoding |-> "", resultNil |-> TRUE]
    /\ pc = "idle" /\ attempt = 0 /\ lastErr = NilErr /\ req = NoRequest
    /\ resp = NoResponse /\ ret = NilErr /\ cancelled = FALSE
    /\ outcomes = <<>> /\ slept = <<>>
    /\ bodyReader = NilReader /\ sent = <<>> /\ bodies = <<>>
    /\ options = IdleOptions /\ opIn = NoOp /\ transport = <<>> /\ opRet = NoReturn
    /\ resultTarget = EndpointResponse_Zero
    /\ \E cs \in [Goroutines -> ConcurrentCalls] :
          frames = [g \in Goroutines |-> EntryFrame(cs[g])]

ConcurrentNext ==
    \E g \in Goroutines :
        \/ Go_Loop(g)
        \/ Go_Request(g)
        \/ Go_DoError(g)
        \/ Go_DoResponse(g)
        \/ Go_Handle(g)

ConcurrentSpec == ConcurrentInit /\ [][ConcurrentNext]_vars

(***************************************************************************)
(* Properties of the executor.                                             *)
(***************************************************************************)
Attempts == Len(outcomes)

IsTransportFailure(o) == o.kind = "error"
IsResponse(o) == o.kind = "response"

\* the error handleResponse reports for a response with an error status
ResponseErrorIs(err) ==
    /\ resp.read = "ok" =>
         err = <<[msg |-> "HTTP", status |-> resp.status, body |-> resp.body]>>
    /\ resp.read = "failed" =>
         Len(err) = 2 /\ err[1].msg = "failed to read response body"

\* C1: with a request that can be built and MaxRetries = n >= 0, a call
\* whose every Do failed makes at most n+1 attempts, returns only after
\* exactly n+1, and returns "max retries exceeded" wrapping the
\* "request failed" error of the last attempt.
C1_ExhaustsAfterNPlusOne ==
    (config.MaxRetries >= 0 /\ \A i \in 1..Attempts : IsTransportFailure(outcomes[i]))
    => /\ Attempts <= config.MaxRetries + 1
       /\ (pc = "done" /\ call.urlValid) =>
            /\ Attempts = config.MaxRetries + 1
            /\ Len(ret) = 3
            /\ ret[1].msg = "max retries exceeded"
            /\ ret[2].msg = "request failed"
            /\ ret[3].msg = outcomes[Attempts].err

\* a call with retries configured returned after all its attempts failed in
\* the transport, with different errors on the first and the last one
C1_Witness ==
    /\ pc = "done"
    /\ config.MaxRetries = MaxRetriesBound
    /\ Attempts = MaxRetriesBound + 1
    /\ \A i \in 1..Attempts : IsTransportFailure(outcomes[i])
    /\ outcomes[1].err # outcomes[Attempts].err
    /\ HeadIs(ret, "max retries exceeded")

Is4xxNot429(status) == status \in 400..499 /\ status # 429

\* C2: a response with status 400-499 other than 429 is the last thing the
\* call does: no attempt and no sleep follows it, and the call returns that
\* response's error, not wrapped in "max retries exceeded".
C2_ClientErrorReturnsAtOnce ==
    \A i \in 1..Attempts :
        (IsResponse(outcomes[i]) /\ Is4xxNot429(outcomes[i].status))
        => /\ i = Attempts
           /\ Len(slept) = i - 1
           /\ pc \in {"handle", "done"}
           /\ pc = "done" =>
                /\ ret # NilErr
                /\ ~HeadIs(ret, "max retries exceeded")
                /\ ResponseErrorIs(ret)
                /\ (IsResponse(outcomes[1]) /\ Is4xxNot429(outcomes[1].status))
                     => Attempts = 1

\* a call with retries left returned the 404 it got on its first attempt
C2_Witness ==
    /\ pc = "done"
    /\ config.MaxRetries = MaxRetriesBound
    /\ Attempts = 1
    /\ outcomes[1].status = 404
    /\ ret = <<[msg |-> "HTTP", status |-> 404, body |-> "<html>"]>>
    /\ slept = <<>>

Is429Or5xx(status) == status = 429 \/ status \in 500..599

\* C3: a 429 or 5xx response on attempt a < MaxRetries does not end the
\* call: its error is recorded and the call returns only after a later
\* attempt; on the last attempt (a = MaxRetries) the call returns
\* "max retries exceeded" wrapping that response's error.
C3_RetryableIsRetried ==
    \A i \in 1..Attempts :
        (IsResponse(outcomes[i]) /\ Is429Or5xx(outcomes[i].status) /\ call.urlValid)
        => /\ (i = Attempts /\ pc = "loop") =>
                (attempt = i /\ ResponseErrorIs(lastErr) /\ lastErr # NilErr)
           /\ (i <= config.MaxRetries /\ pc = "done") => Attempts > i
           /\ (i = config.MaxRetries + 1) => i = Attempts
           /\ (i = config.MaxRetries + 1 /\ pc = "done") =>
                /\ HeadIs(ret, "max retries exceeded")
                /\ ResponseErrorIs(Tail(ret))
                /\ Tail(ret) # NilErr

\* a 500 on the first attempt was followed by a second attempt, and a call
\* returned "max retries exceeded" after a 429 on its last attempt
C3_Witness ==
    /\ pc = "done"
    /\ config.MaxRetries = MaxRetriesBound
    /\ Attempts = MaxRetriesBound + 1
    /\ outcomes[1].status = 500
    /\ outcomes[Attempts].status = 429
    /\ HeadIs(ret, "max retries exceeded")

\* C4: a 2xx response other than 204 whose non-empty body was read but does
\* not decode into a non-nil result ends the call: it returns the decode
\* error and makes no further attempt, whatever MaxRetries is.
C4_DecodeFailureNotRetried ==
    (/\ pc # "handle"
     /\ resp.status \in 200..299 /\ resp.status # 204
     /\ resp.read = "ok"
     /\ resp.body = "<html>"
     /\ ~call.resultNil)
    => /\ pc = "done"
       /\ Len(ret) = 2
       /\ ret[1].msg = "failed to unmarshal response"
       /\ outcomes[Attempts].status = resp.status

\* a call with retries left returned the decode error of its second attempt
C4_Witness ==
    /\ pc = "done"
    /\ config.MaxRetries = MaxRetriesBound
    /\ Attempts = 2
    /\ resp.status = 200 /\ resp.body = "<html>" /\ resp.read = "ok"
    /\ ~call.resultNil
    /\ HeadIs(ret, "failed to unmarshal response")

\* the outcomes after which the call goes on: a transport error, 429, 5xx
MayBeRetried(o) == IsTransportFailure(o) \/ Is429Or5xx(o.status)

\* C20: whatever the attempts' outcomes, only a transport error, a 429 or a
\* 5xx is followed by another attempt; a response with any other status
\* (2xx, decodable or not, 4xx other than 429, 1xx, 3xx, 600) is the last
\* attempt and the call returns what handling it gave; and the call never
\* makes more than MaxRetries+1 attempts.
C20_StopsAtFirstNonRetryable ==
    /\ Attempts <= config.MaxRetries + 1
    /\ \A i \in 1..Attempts :
        /\ i < Attempts => MayBeRetried(outcomes[i])
        /\ (~MayBeRetried(outcomes[i]) /\ pc = "done")
             => /\ i = Attempts
                /\ ret = lastErr
                /\ ~HeadIs(ret, "max retries exceeded")

\* the outcome of an attempt leads to another attempt
Retryable(o) == o.kind = "error" \/ o.status >= 500 \/ o.status = 429

\* what a call alone on the client does, given its arguments and the
\* outcomes of its attempts: it sleeps RetryDelay * a before attempt a > 0,
\* sends its own body each time, goes on only after a retryable outcome,
\* makes at most MaxRetries + 1 attempts, and returns what its last
\* outcome determines
AsIfAlone(f) ==
    LET n == Len(f.outcomes)
        started == IF f.pc \in {"request", "do"} THEN n + 1 ELSE n
        ErrOf(o) == IF o.kind = "error" THEN Errorf("request failed", NewError(o.err))
                    ELSE IF o.status \in 200..299 THEN NilErr
                    ELSE HTTPError(o.status, f.resp.body)
    IN /\ n <= config.MaxRetries + 1
       /\ Len(f.slept) = (IF started = 0 THEN 0 ELSE started - 1)
       /\ \A i \in 1..Len(f.slept) : f.slept[i] = config.RetryDelay * i
       /\ (f.pc \in {"do", "handle"} \/ n > 0)
            => (f.req.body = f.call.bodyBytes /\ f.req.method = f.call.method)
       /\ \A i \in 1..(n - 1) : Retryable(f.outcomes[i])
       /\ f.pc = "done"
            => /\ n >= 1
               /\ IF Retryable(f.outcomes[n])
                  THEN /\ n = config.MaxRetries + 1
                       /\ f.ret = Errorf("max retries exceeded", ErrOf(f.outcomes[n]))
                  ELSE f.ret = ErrOf(f.outcomes[n])

\* C17: calls running concurrently on one client do not interfere: in
\* every state of every interleaving each call has made the attempts,
\* slept the delays, sent the body and returned the result it would alone,
\* given its own arguments and the outcomes of its own attempts; and no
\* step writes the client's Config or ClientOptions.
C17_CallsDoNotInterfere ==
    /\ [](\A g \in DOMAIN frames : AsIfAlone(frames[g]))
    /\ [][config' = config /\ options' = options]_vars

\* two calls with different bodies are in flight at once, the first on its
\* second attempt after a backoff, the second on its first
C17_Witness ==
    /\ DOMAIN frames = Goroutines
    /\ frames[1].pc = "do" /\ frames[2].pc = "do"
    /\ frames[1].attempt = 1 /\ frames[2].attempt = 0
    /\ frames[1].slept = <<2>>
    /\ frames[1].call.bodyBytes # frames[2].call.bodyBytes

\* C5: once the context is cancelled the loop unwinds: no backoff sleep
\* starts while the context is cancelled, and no Do is issued after a Do
\* of the call has returned the context's error.
C5_NoWorkAfterCancel ==
    /\ \A i \in 1..Len(slept) : ~slept[i].cancelled
    /\ \A i \in 2..Attempts : outcomes[i - 1].err # "context canceled"

\* the time slept in all, over the first n sleeps of the call
RECURSIVE TotalSlept(_)
TotalSlept(n) == IF n = 0 THEN 0 ELSE slept[n].d + TotalSlept(n - 1)

\* the call returned because the loop ran out of attempts
Exhausted == pc = "done" /\ HeadIs(ret, "max retries exceeded")

OpenBodies == {i \in 1..Len(bodies) : bodies[i] = "open"}

\* the attempts that obtained a response
Responses == {i \in 1..Attempts : IsResponse(outcomes[i])}

\* C22: every attempt that got a response got one body; at most one body
\* is open at a time; and none is open when the loop goes to its next
\* attempt, when a request is built or handed to Do, or when the call has
\* returned, whichever way the attempt ended.
C22_BodiesClosed ==
    /\ Len(bodies) = Cardinality(Responses)
    /\ Cardinality(OpenBodies) <= 1
    /\ pc \in {"loop", "request", "do", "done"} => OpenBodies = {}
    /\ pc = "handle" => OpenBodies = {Len(bodies)}
    /\ resp.open <=> OpenBodies # {}

\* a call returned after a 500 it retried and a 404 that ended it, with the
\* bodies of both closed
C22_Witness ==
    /\ pc = "done"
    /\ Attempts >= 2
    /\ outcomes[1].status = 500
    /\ outcomes[Attempts].status = 404
    /\ Len(bodies) >= 2
    /\ \A i \in 1..Len(bodies) : bodies[i] = "closed"
    /\ ret # NilErr

\* C23: each Do of a call is handed a request built for that attempt,
\* whose body reader stands at offset 0 and delivers the whole of the
\* stored bytes, also after an attempt that read the body to its end; the
\* bytes, the method and the content type (for PostMultipart, with its
\* boundary) are the same on every attempt.
C23_FreshBodyEachAttempt ==
    /\ Len(sent) = Attempts
    /\ pc = "do" => /\ bodyReader.off = 0
                    /\ bodyReader.bytes = call.bodyBytes
                    /\ req.body = call.bodyBytes
    /\ \A i \in 1..Len(sent) :
        /\ sent[i].body = call.bodyBytes
        /\ sent[i].method = call.method
        /\ sent[i].header = sent[1].header
        /\ call.path = "raw" =>
              (call.contentType # "" =>
                  <<"Content-Type", call.contentType>> \in sent[i].header)

\* a multipart upload was retried after a response whose attempt had read
\* the form to its end: the second attempt delivered the whole form again,
\* with the same boundary
C23_Witness ==
    /\ pc \in {"handle", "done"}
    /\ call \in MultipartCalls
    /\ Len(call.bodyBytes) > 10
    /\ Len(sent) = 2
    /\ outcomes[1].status = 500
    /\ bodyReader.off = Len(call.bodyBytes)
    /\ sent[2].body = call.bodyBytes
    /\ <<"Content-Type", "multipart/form-data; boundary=b">> \in sent[2].header
    /\ call.bodyBytes[3] = 98

\* the names of the headers of a request, and the values under a name
HeaderNames(h) == {p[1] : p \in h}
HeaderValues(h, name) == {p[2] : p \in {q \in h : q[1] = name}}

\* a request carries the header with that content, or does not carry it
Carries(h, name, content) == HeaderValues(h, name) = {content}
Lacks(h, name) == name \notin HeaderNames(h)

\* C24: the request of every attempt carries Authorization: Bearer <token>
\* if a token is configured and no Authorization otherwise; the configured
\* User-Agent; Content-Encoding with the encoding tag if one was supplied and
\* none otherwise; Content-Type application/json in the structured path if
\* the body is not empty, the supplied content type in the raw path if it
\* is not empty, and no Content-Type otherwise; and no other header.
C24_HeadersOnEveryAttempt ==
    \A i \in 1..Len(sent) :
        LET h == sent[i].header IN
        /\ IF config.Token # ""
           THEN Carries(h, "Authorization", "Bearer " \o config.Token)
           ELSE Lacks(h, "Authorization")
        /\ Carries(h, "User-Agent", config.UserAgent)
        /\ IF call.contentEncoding # ""
           THEN Carries(h, "Content-Encoding", call.contentEncoding)
           ELSE Lacks(h, "Content-Encoding")
        /\ call.path = "structured" =>
              IF call.bodyBytes # <<>>
              THEN Carries(h, "Content-Type", "application/json")
              ELSE Lacks(h, "Content-Type")
        /\ call.path = "raw" =>
              IF call.contentType # ""
              THEN Carries(h, "Content-Type", call.contentType)
              ELSE Lacks(h, "Content-Type")
        /\ HeaderNames(h) \subseteq
              {"Authorization", "User-Agent", "Content-Encoding", "Content-Type"}

\* a raw call without a token, with a content type and no encoding, was
\* retried: its second request carries Content-Type and User-Agent only
C24_Witness ==
    /\ pc = "done"
    /\ call.path = "raw"
    /\ config.Token = ""
    /\ call.contentType = "application/x-ndjson"
    /\ call.contentEncoding = ""
    /\ call.bodyBytes # <<>>
    /\ Len(sent) = 2
    /\ sent[2].header = {<<"Content-Type", "application/x-ndjson">>,
                         <<"User-Agent", UserAgent>>}

\* the headers of a request other than Content-Type and Content-Encoding
OtherHeaders(h) == {p \in h : p[1] \notin {"Content-Type", "Content-Encoding"}}

\* C25: executeRawWithRetry, answered as executeWithRetry was, calls Do
\* only where executeWithRetry called it, sleeps the same delays in
\* the same order, and returns when it has made the same attempts, with the
\* same error or success; its requests have the same method and body and,
\* but for Content-Type and Content-Encoding, the same headers.
C25_SameRetryPolicy ==
    frames # <<>> =>
        /\ pc = "do" => Len(outcomes) < Len(FirstCall.outcomes)
        /\ Len(slept) <= Len(FirstCall.slept)
        /\ \A i \in 1..Len(slept) : slept[i] = FirstCall.slept[i]
        /\ \A i \in 1..Len(sent) :
              /\ sent[i].method = FirstCall.sent[i].method
              /\ sent[i].body = FirstCall.sent[i].body
              /\ OtherHeaders(sent[i].header) = OtherHeaders(FirstCall.sent[i].header)
        /\ pc = "done" =>
              /\ outcomes = FirstCall.outcomes
              /\ slept = FirstCall.slept
              /\ Len(sent) = Len(FirstCall.sent)
              /\ ret = FirstCall.ret

\* both executors, answered 429 and then a 200 whose body does not decode,
\* slept once and returned the decode error after two attempts
C25_Witness ==
    /\ frames # <<>>
    /\ pc = "done"
    /\ call.path = "raw"
    /\ FirstCall.call.path = "structured"
    /\ Attempts = 2
    /\ outcomes[1].status = 429
    /\ outcomes[2].status = 200
    /\ Len(slept) = 1
    /\ HeadIs(ret, "failed to unmarshal response")
    /\ ret = FirstCall.ret

\* with a negative MaxRetries the call does nothing but return "max retries
\* exceeded", which wraps no error
NothingWhenNegative ==
    config.MaxRetries < 0 =>
        /\ Attempts = 0
        /\ slept = <<>>
        /\ sent = <<>>
        /\ pc \in {"loop", "done"}
        /\ pc = "done" => ret = <<ErrorOf("max retries exceeded")>>

\* C26 as stated: with a negative MaxRetries the call makes no attempt and
\* no sleep and returns "max retries exceeded" wrapping no error; with
\* MaxRetries >= 0 a call that returned has made at least one attempt.
C26_AttemptBeforeAnyReturn ==
    /\ NothingWhenNegative
    /\ (config.MaxRetries >= 0 /\ pc = "done") => Attempts >= 1

\* C26, amended: with a negative MaxRetries as above; with MaxRetries >= 0 a
\* call whose request can be built has made at least one attempt when it
\* returns, and a call whose request cannot be built returns "failed to
\* create request" without an attempt.
C26_AttemptBeforeReturnIfBuilt ==
    /\ NothingWhenNegative
    /\ (config.MaxRetries >= 0 /\ pc = "done") =>
          IF call.urlValid
          THEN Attempts >= 1
          ELSE Attempts = 0 /\ HeadIs(ret, "failed to create request")

\* a call on a client with MaxRetries = -1 returned at once
C26_Witness ==
    /\ pc = "done"
    /\ config.MaxRetries < 0
    /\ call.urlValid
    /\ Attempts = 0
    /\ slept = <<>>
    /\ req = NoRequest
    /\ Len(ret) = 1
    /\ ret[1].msg = "max retries exceeded"

(***************************************************************************)
(* Text and bytes.  A Go string supplied by the caller is a sequence of    *)
(* characters; a URL built from literals is a TLA+ string.                 *)
(***************************************************************************)
BoundedSeq(S, n) == UNION {[1..k -> S] : k \in 0..n}

\* characters of datasource names and remote URLs: one that needs no
\* escaping, the space, and two reserved characters
NameChars == {"d", " ", "&", "/"}
Names == BoundedSeq(NameChars, MaxNameLen)

Bytes == {10, 123}
Datas == BoundedSeq(Bytes, MaxDataLen)

\* a faulty variant: the text is inserted as it is
QueryEscape_Raw(str) ==
    LET RECURSIVE Join(_)
        Join(t) == IF t = <<>> THEN "" ELSE Head(t) \o Join(Tail(t))
    IN Join(str)

\* url.QueryEscape: unreserved characters stay, a space becomes "+", every
\* other character becomes %XX
QueryEscape(str) ==
    LET Escaped(c) == CASE c = " " -> "+"
                        [] c = "&" -> "%26"
                        [] c = "/" -> "%2F"
                        [] c = "=" -> "%3D"
                        [] c = "?" -> "%3F"
                        [] c = ":" -> "%3A"
                        [] c = "%" -> "%25"
                        [] c = "," -> "%2C"
                        [] c = "{" -> "%7B"
                        [] c = "}" -> "%7D"
                        [] OTHER -> c
        RECURSIVE Join(_)
        Join(t) == IF t = <<>> THEN "" ELSE Escaped(Head(t)) \o Join(Tail(t))
    IN Join(str)

(***************************************************************************)
(* Compression codecs (compress/gzip, klauspost/compress/zstd).  Each is   *)
(* modelled by its container: a magic number, the payload in one stored    *)
(* block, and what the decoder verifies.                                   *)
(***************************************************************************)
RECURSIVE Checksum(_)
Checksum(d) == IF d = <<>> THEN 0 ELSE (Head(d) + Checksum(Tail(d))) % 256

\* gzip.NewWriter(&buf); Write(data); Close(): header, deflate stream,
\* CRC and ISIZE trailer
GzipEncode(d) == <<31, 139, 8>> \o <<1, Len(d)>> \o d \o <<Checksum(d), Len(d)>>

\* gzip.NewReader + io.ReadAll
GzipDecode(b) ==
    IF /\ Len(b) >= 7
       /\ SubSeq(b, 1, 3) = <<31, 139, 8>>
       /\ b[5] = Len(b) - 7
       /\ b[Len(b)] = b[5]
       /\ b[Len(b) - 1] = Checksum(SubSeq(b, 6, Len(b) - 2))
    THEN [ok |-> TRUE, data |-> SubSeq(b, 6, Len(b) - 2)]
    ELSE [ok |-> FALSE, data |-> <<>>]

\* zstd.NewWriter(nil) + EncodeAll(data, nil): a frame (magic, content
\* size, one raw block); an empty input encodes to no frame at all
ZstdEncode(d) ==
    IF d = <<>> THEN <<>> ELSE <<40, 181, 47, 253>> \o <<Len(d)>> \o d

\* zstd.NewReader(nil) + DecodeAll(body, nil): decodes the frames present
ZstdDecode(b) ==
    IF b = <<>>
    THEN [ok |-> TRUE, data |-> <<>>]
    ELSE IF /\ Len(b) >= 5
            /\ SubSeq(b, 1, 4) = <<40, 181, 47, 253>>
            /\ b[5] = Len(b) - 5
         THEN [ok |-> TRUE, data |-> SubSeq(b, 6, Len(b))]
         ELSE [ok |-> FALSE, data |-> <<>>]

(***************************************************************************)
(* The transport interface (httpclient.Client) as the facade sees it: it   *)
(* records each call, with the error it returned to it (nil or an error).  *)
(***************************************************************************)
TransportCall(verb, url, body, contentType, contentEncoding, fieldName, fileName, result, returned) ==
    [verb |-> verb, url |-> url, body |-> body, contentType |-> contentType,
     contentEncoding |-> contentEncoding, fieldName |-> fieldName,
     fileName |-> fileName, result |-> result, returned |-> returned]

\* the HTTP method each verb of the transport uses
VerbMethod(verb) ==
    CASE verb = "Get" -> "GET"
      [] verb = "Post" -> "POST"
      [] verb = "Put" -> "PUT"
      [] verb = "Patch" -> "PATCH"
      [] verb = "Delete" -> "DELETE"
      [] verb = "PostRaw" -> "POST"
      [] verb = "PostMultipart" -> "POST"

\* what a transport call returns: nil, or an error
TransportErrs == {NilErr, NewError("network error")}

\* a nil pointer, and a pointer to v
NilPtr == <<>>
PtrTo(v) == <<v>>

(***************************************************************************)
(* SendEvents (package tinybird).                                          *)
(***************************************************************************)
Formats == {<<>>, <<"j", "s", "o", "n">>, <<"c", "s", "v">>, <<"a", "&">>}

SendEventsOptions ==
    [Wait : BOOLEAN, Compress : BOOLEAN,
     CompressionEncoding : {"", "gzip", "zstd", "lz4"}, Format : Formats]

\* the options used when the caller passes nil
SendEvents_Default == [Wait |-> FALSE, Compress |-> FALSE,
                       CompressionEncoding |-> "", Format |-> <<>>]

\* a faulty variant: the format parameter is appended before the wait flag
SendEvents_URL_FormatFirst(datasourceName, o) ==
    options.Protocol \o "://" \o options.Host \o "/" \o options.ApiVersion
        \o "/" \o "events" \o "?name=" \o QueryEscape(datasourceName)
        \o (IF o.Format # <<>> THEN "&format=" \o QueryEscape(o.Format) ELSE "")
        \o (IF o.Wait THEN "&wait=true" ELSE "")

\* the request URL
SendEvents_URL(datasourceName, o) ==
    options.Protocol \o "://" \o options.Host \o "/" \o options.ApiVersion
        \o "/" \o "events" \o "?name=" \o QueryEscape(datasourceName)
        \o (IF o.Wait THEN "&wait=true" ELSE "")
        \o (IF o.Format # <<>> THEN "&format=" \o QueryEscape(o.Format) ELSE "")

\* the codec name: gzip unless the options name one
SendEvents_Encoding(o) ==
    IF o.CompressionEncoding = "" THEN "gzip" ELSE o.CompressionEncoding

\* a faulty variant: an unknown codec name sends the data uncompressed
SendEvents_Compress_Lenient(data, o) ==
    IF o.Compress
    THEN LET encoding == SendEvents_Encoding(o) IN
         CASE encoding = "gzip" ->
                [err |-> NilErr, body |-> GzipEncode(data), contentEncoding |-> encoding]
           [] encoding = "zstd" ->
                [err |-> NilErr, body |-> ZstdEncode(data), contentEncoding |-> encoding]
           [] OTHER ->
                [err |-> NilErr, body |-> data, contentEncoding |-> ""]
    ELSE [err |-> NilErr, body |-> data, contentEncoding |-> ""]

\* a faulty variant: the gzip branch is taken whatever codec the tag names
SendEvents_Compress_AlwaysGzip(data, o) ==
    IF o.Compress
    THEN LET encoding == SendEvents_Encoding(o) IN
         CASE encoding \in {"gzip", "zstd"} ->
                [err |-> NilErr, body |-> GzipEncode(data), contentEncoding |-> encoding]
           [] OTHER ->
                [err |-> NewError("unsupported compression encoding: " \o encoding),
                 body |-> data, contentEncoding |-> ""]
    ELSE [err |-> NilErr, body |-> data, contentEncoding |-> ""]

\* the request body and content encoding, or the configuration error
SendEvents_Compress(data, o) ==
    IF o.Compress
    THEN LET encoding == SendEvents_Encoding(o) IN
         CASE encoding = "gzip" ->
                [err |-> NilErr, body |-> GzipEncode(data), contentEncoding |-> encoding]
           [] encoding = "zstd" ->
                [err |-> NilErr, body |-> ZstdEncode(data), contentEncoding |-> encoding]
           [] OTHER ->
                [err |-> NewError("unsupported compression encoding: " \o encoding),
                 body |-> data, contentEncoding |-> ""]
    ELSE [err |-> NilErr, body |-> data, contentEncoding |-> ""]

\* a faulty variant: JSON is the default content type
SendEvents_ContentType_Json(o) ==
    IF o.Format = <<>> \/ o.Format = <<"j", "s", "o", "n">>
    THEN "application/json" ELSE "application/x-ndjson"

\* the content type
SendEvents_ContentType(o) ==
    IF o.Format = <<"j", "s", "o", "n">>
    THEN "application/json" ELSE "application/x-ndjson"

\* the WriteResponse the transport decodes into the result on success
WriteResponses == {[SuccessfulRows |-> 2, QuarantinedRows |-> 1]}

\* a faulty variant: the transport's error is wrapped
SendEvents_Return_Wrapped(err, response) ==
    IF err # NilErr
    THEN [response |-> NilPtr, err |-> Errorf("failed to send events", err)]
    ELSE [response |-> PtrTo(response), err |-> NilErr]

\* what SendEvents returns after the transport call
SendEvents_Return(err, response) ==
    IF err # NilErr
    THEN [response |-> NilPtr, err |-> err]
    ELSE [response |-> PtrTo(response), err |-> NilErr]

\* SendEvents(ctx, datasourceName, data, options); optionsPtr is NilPtr or
\* a pointer to the caller's options
SendEvents ==
    /\ opIn = NoOp
    /\ \E datasourceName \in Names, data \in Datas,
       optionsPtr \in {NilPtr} \cup {PtrTo(o) : o \in SendEventsOptions},
       err \in TransportErrs, response \in WriteResponses :
        LET o == IF optionsPtr = NilPtr THEN SendEvents_Default ELSE optionsPtr[1]
            reqUrl == SendEvents_URL(datasourceName, o)
            c == SendEvents_Compress(data, o)
            contentType == SendEvents_ContentType(o)
        IN
        /\ opIn' = [op |-> "SendEvents", name |-> datasourceName, data |-> data,
                    options |-> optionsPtr, input |-> <<>>]
        /\ IF c.err # NilErr
           THEN /\ transport' = <<>>
                /\ opRet' = [response |-> NilPtr, err |-> c.err]
           ELSE /\ transport' = <<TransportCall("PostRaw", reqUrl, c.body, contentType,
                                                c.contentEncoding, "", "",
                                                "*tinybird.WriteResponse", err)>>
                /\ opRet' = SendEvents_Return(err, response)
        /\ UNCHANGED <<options, resultTarget>>
        /\ UNCHANGED <<execVars, frames>>

(***************************************************************************)
(* Analyze (package tinybird).                                             *)
(***************************************************************************)
\* the values a caller may pass as the interface{} input, with their
\* dynamic type as %T prints it
AnalyzeInputs ==
    {[type |-> "[]uint8", bytes |-> d, str |-> <<>>] : d \in Datas}
    \cup {[type |-> "string", bytes |-> <<>>, str |-> n] : n \in Names}
    \cup {[type |-> t, bytes |-> <<>>, str |-> <<>>] : t \in {"<nil>", "int", "*string"}}

Analyze_BaseURL ==
    options.Protocol \o "://" \o options.Host \o "/" \o options.ApiVersion \o "/analyze"

AnalyzeResponses == {[Schema |-> "name String, age Int16"]}

\* a faulty variant: every input that is not a string is uploaded
Analyze_Dispatch_UploadDefault(input) == IF input.type = "string" THEN "string" ELSE "[]byte"

\* a faulty variant: a string is uploaded as if it were the file's bytes
Analyze_Dispatch_UploadString(input) ==
    CASE input.type \in {"[]uint8", "string"} -> "[]byte"
      [] OTHER -> "default"

\* the case of the type switch the input takes
Analyze_Dispatch(input) ==
    CASE input.type = "[]uint8" -> "[]byte"
      [] input.type = "string" -> "string"
      [] OTHER -> "default"

\* Analyze(ctx, input)
Analyze ==
    /\ opIn = NoOp
    /\ \E input \in AnalyzeInputs, err \in TransportErrs, response \in AnalyzeResponses :
        LET baseUrl == Analyze_BaseURL
            case == Analyze_Dispatch(input)
            returned == IF err # NilErr
                        THEN [response |-> NilPtr, err |-> err]
                        ELSE [response |-> PtrTo(response), err |-> NilErr]
        IN
        /\ opIn' = [op |-> "Analyze", name |-> <<>>, data |-> <<>>,
                    options |-> NilPtr, input |-> input]
        /\ IF case = "[]byte"
           THEN /\ transport' = <<TransportCall("PostMultipart", baseUrl, input.bytes,
                                                "", "", "file", "data",
                                                "*tinybird.AnalyzeResponse", err)>>
                /\ opRet' = returned
           ELSE IF case = "string"
           THEN /\ transport' = <<TransportCall("PostRaw",
                                                baseUrl \o "?url=" \o QueryEscape(input.str),
                                                <<>>, "", "", "", "",
                                                "*tinybird.AnalyzeResponse", err)>>
                /\ opRet' = returned
           ELSE /\ transport' = <<>>
                /\ opRet' = [response |-> NilPtr,
                             err |-> NewError("unsupported input type: expected []byte or string, got "
                                              \o input.type)]
        /\ UNCHANGED <<options, resultTarget>>
        /\ UNCHANGED <<execVars, frames>>

(***************************************************************************)
(* CallEndpoint (package tinybird).                                        *)
(***************************************************************************)
\* a Go string as the text fmt.Sprintf("%s") inserts: the characters as
\* they are
StringOf(str) ==
    LET RECURSIVE Join(_)
        Join(t) == IF t = <<>> THEN "" ELSE Head(t) \o Join(Tail(t))
    IN Join(str)

\* the query parameters a caller passes: a nil map, and one entry
EndpointParams == {<<>>, [limit |-> "100"]}

\* what the body of a successful exchange decodes to
EndpointResponses ==
    {[Meta |-> <<[Name |-> "id", Type |-> "Int32"]>>, Data |-> <<[id |-> <<7>>]>>,
      Rows |-> 1, RowsBeforeLimit |-> 1,
      Stats |-> [Elapsed |-> 1, RowsRead |-> 10, BytesRead |-> 40]]}

\* c.httpClient.Get(ctx, url, params, result): the call as the transport
\* sees it, with what it decoded into the target it was handed
TransportGet(url, params, target, decoded, returned) ==
    [verb |-> "Get", url |-> url, body |-> <<>>, contentType |-> "",
     contentEncoding |-> "", fieldName |-> "", fileName |-> "",
     result |-> target, returned |-> returned, params |-> params, decoded |-> decoded]

CallEndpoint_URL(endpointName) ==
    options.Protocol \o "://" \o options.Host \o "/" \o options.ApiVersion
        \o "/pipes/" \o StringOf(endpointName)

\* CallEndpoint(ctx, endpointName, params, result): the transport decodes
\* into the local `response`; the parameter `result` is not used
CallEndpoint ==
    /\ opIn = NoOp
    /\ \E endpointName \in Names, params \in EndpointParams,
          resultPtr \in {NilPtr, PtrTo(EndpointResponse_Zero)},
          err \in TransportErrs, decoded \in EndpointResponses :
        LET reqUrl == CallEndpoint_URL(endpointName)
            response == IF err = NilErr THEN decoded ELSE EndpointResponse_Zero
        IN
        /\ opIn' = [op |-> "CallEndpoint", name |-> endpointName, data |-> <<>>,
                    options |-> params, input |-> resultPtr]
        /\ transport' = <<TransportGet(reqUrl, params, "&response", response, err)>>
        /\ opRet' = [response |-> NilPtr, err |-> err]
        /\ resultTarget' = resultTarget
        /\ UNCHANGED options
        /\ UNCHANGED <<execVars, frames>>

(***************************************************************************)
(* Client options (package tinybird).  Durations are in seconds.  An       *)
(* Option is a function that sets one field; it is modelled by the field   *)
(* it sets and the value it was made with.                                 *)
(***************************************************************************)
ApiVersion(version) == [field |-> "ApiVersion", value |-> version]
Protocol(protocol) == [field |-> "Protocol", value |-> protocol]
Timeout(timeout) == [field |-> "Timeout", value |-> timeout]
Host(host) == [field |-> "Host", value |-> host]
Token(token) == [field |-> "Token", value |-> token]
MaxRetries(retries) == [field |-> "MaxRetries", value |-> retries]
RetryDelay(delay) == [field |-> "RetryDelay", value |-> delay]

\* option(co): the assignment the option function makes
Option_Apply(option, co) == [co EXCEPT ![option.field] = option.value]

\* &ClientOptions{}
ClientOptions_Zero ==
    [Host |-> "", Token |-> "", Timeout |-> 0, ApiVersion |-> "", Protocol |-> "",
     MaxRetries |-> 0, RetryDelay |-> 0]

\* NewClientOptions(options...); env is the value of $TINYBIRD_TOKEN
NewClientOptions(opts, env) ==
    LET RECURSIVE ApplyAll(_, _)
        ApplyAll(os, co) ==
            IF os = <<>> THEN co ELSE ApplyAll(Tail(os), Option_Apply(Head(os), co))
        co == ApplyAll(opts, ClientOptions_Zero)
    IN [Timeout |-> IF co.Timeout = 0 THEN 15 ELSE co.Timeout,
        Host |-> IF co.Host = "" THEN "https://api.tinybird.co" ELSE co.Host,
        Token |-> IF co.Token = "" THEN env ELSE co.Token,
        ApiVersion |-> IF co.ApiVersion = "" THEN "v0" ELSE co.ApiVersion,
        Protocol |-> IF co.Protocol = "" THEN "https" ELSE co.Protocol,
        MaxRetries |-> IF co.MaxRetries = 0 THEN 3 ELSE co.MaxRetries,
        RetryDelay |-> IF co.RetryDelay = 0 THEN 2 ELSE co.RetryDelay]

\* DefaultClientOptions()
DefaultClientOptions(env) ==
    [Host |-> "https://api.tinybird.co", Token |-> env, Timeout |-> 15,
     ApiVersion |-> "v0", Protocol |-> "https", MaxRetries |-> 3, RetryDelay |-> 2]

\* the option functions a caller may pass, made with a zero and a non-zero
\* value each
Options ==
    {ApiVersion(v) : v \in {"", "v1"}} \cup {Protocol(v) : v \in {"", "http"}}
    \cup {Timeout(v) : v \in {0, 5}} \cup {Host(v) : v \in {"", "localhost:7181"}}
    \cup {Token(v) : v \in {"", "p.token"}} \cup {MaxRetries(v) : v \in {0, 1}}
    \cup {RetryDelay(v) : v \in {0, 1}}

OptionLists == BoundedSeq(Options, MaxOptions)

\* values of $TINYBIRD_TOKEN: unset, and set
Environments == {"", "p.env"}

(***************************************************************************)
(* Specification of the facade: a client over a recording transport, on    *)
(* which one endpoint operation is invoked.  The client keeps no state     *)
(* between operations, so one invocation per behaviour covers them all.    *)
(***************************************************************************)
\* the options of the tests' client, of a locally configured client, and
\* those DefaultClientOptions returns
ClientOptionsSet ==
    {[Protocol |-> "https", Host |-> "api.tinybird.co", ApiVersion |-> "v0"],
     [Protocol |-> "http", Host |-> "localhost:7181", ApiVersion |-> "v1"],
     DefaultClientOptions("p.env")}

\* no executor call is in progress: the transport is the recording one
ExecIdle ==
    /\ config = [MaxRetries |-> 0, RetryDelay |-> 0, Token |-> "", UserAgent |-> UserAgent]
    /\ call = [path |-> "none", method |-> "", urlValid |-> TRUE, bodyBytes |-> <<>>,
               contentType |-> "", contentEncoding |-> "", resultNil |-> TRUE]
    /\ pc = "idle"
    /\ attempt = 0
    /\ lastErr = NilErr
    /\ req = NoRequest
    /\ resp = NoResponse
    /\ ret = NilErr
    /\ cancelled = FALSE
    /\ outcomes = <<>>
    /\ slept = <<>>
    /\ bodyReader = NilReader
    /\ sent = <<>>
    /\ bodies = <<>>

OpInit ==
    /\ options \in ClientOptionsSet
    /\ opIn = NoOp
    /\ transport = <<>>
    /\ opRet = NoReturn
    /\ resultTarget = EndpointResponse_Zero
    /\ frames = <<>>
    /\ ExecIdle

OpNext ==
    \/ SendEvents
    \/ Analyze
    \/ CallEndpoint

OpSpec == OpInit /\ [][OpNext]_vars

(***************************************************************************)
(* Specification of the constructors of ClientOptions.                     *)
(***************************************************************************)
\* a caller calls NewClientOptions
NewClientOptions_Call ==
    /\ opIn = NoOp
    /\ \E opts \in OptionLists, env \in Environments :
        /\ opIn' = [op |-> "NewClientOptions", name |-> <<>>, data |-> <<>>,
                    options |-> opts, input |-> env]
        /\ opRet' = [response |-> PtrTo(NewClientOptions(opts, env)), err |-> NilErr]
    /\ UNCHANGED <<options, transport, resultTarget>>
    /\ UNCHANGED <<execVars, frames>>

\* a caller calls DefaultClientOptions
DefaultClientOptions_Call ==
    /\ opIn = NoOp
    /\ \E env \in Environments :
        /\ opIn' = [op |-> "DefaultClientOptions", name |-> <<>>, data |-> <<>>,
                    options |-> <<>>, input |-> env]
        /\ opRet' = [response |-> PtrTo(DefaultClientOptions(env)), err |-> NilErr]
    /\ UNCHANGED <<options, transport, resultTarget>>
    /\ UNCHANGED <<execVars, frames>>

OptionsInit == OpIdle /\ ExecIdle

OptionsNext ==
    \/ NewClientOptions_Call
    \/ DefaultClientOptions_Call

OptionsSpec == OptionsInit /\ [][OptionsNext]_vars

(***************************************************************************)
(* The query encoder (internal/httpclient, struct.go).  Go strings are     *)
(* sequences of characters.  A reflect.Value is [kind, v]: v is the        *)
(* characters of a string, the number of an int or uint, the truth value   *)
(* of a bool, twice the number of a float64, <<>> or <<pointee>> for a     *)
(* pointer, the elements of a slice, the fields of a struct.               *)
(***************************************************************************)
StringValue(str) == [kind |-> "string", v |-> str]
IntValue(n) == [kind |-> "int", v |-> n]
UintValue(n) == [kind |-> "uint", v |-> n]
BoolValue(b) == [kind |-> "bool", v |-> b]
Float64Value(halves) == [kind |-> "float64", v |-> halves]
NilPointer == [kind |-> "ptr", v |-> <<>>]
PointerTo(elem) == [kind |-> "ptr", v |-> <<elem>>]
SliceValue(elems) == [kind |-> "slice", v |-> elems]
StructValue(fields) == [kind |-> "struct", v |-> fields]

\* the byte of a character
Ord(c) ==
    CASE c = " " -> 32 [] c = "&" -> 38 [] c = "," -> 44 [] c = "-" -> 45
      [] c = "." -> 46 [] c = "/" -> 47 [] c = "0" -> 48 [] c = "1" -> 49
      [] c = "2" -> 50 [] c = "3" -> 51 [] c = "4" -> 52 [] c = "5" -> 53
      [] c = "6" -> 54 [] c = "7" -> 55 [] c = "8" -> 56 [] c = "9" -> 57
      [] c = "=" -> 61 [] c = "N" -> 78 [] c = "a" -> 97 [] c = "d" -> 100
      [] c = "e" -> 101 [] c = "f" -> 102 [] c = "j" -> 106 [] c = "l" -> 108
      [] c = "n" -> 110 [] c = "o" -> 111 [] c = "q" -> 113 [] c = "r" -> 114
      [] c = "s" -> 115 [] c = "t" -> 116 [] c = "u" -> 117 [] c = "{" -> 123
      [] c = "}" -> 125

\* strings.ToLower
ToLower(str) ==
    [i \in 1..Len(str) |-> IF str[i] = "N" THEN "n" ELSE str[i]]

\* strings.Split(tag, ",")[0]: the text before the first comma
RECURSIVE SplitFirst(_)
SplitFirst(tag) ==
    IF tag = <<>> \/ Head(tag) = "," THEN <<>>
    ELSE <<Head(tag)>> \o SplitFirst(Tail(tag))

\* strconv.FormatInt(n, 10), strconv.FormatUint(n, 10)
RECURSIVE FormatInt(_)
FormatInt(n) ==
    LET Digit(k) == <<"0", "1", "2", "3", "4", "5", "6", "7", "8", "9">>[k + 1] IN
    IF n < 0 THEN <<"-">> \o FormatInt(0 - n)
    ELSE IF n < 10 THEN <<Digit(n)>>
    ELSE FormatInt(n \div 10) \o <<Digit(n % 10)>>

\* strconv.FormatFloat(f, 'f', -1, 64) of a non-negative multiple of 0.5
FormatFloat(halves) ==
    IF halves % 2 = 0 THEN FormatInt(halves \div 2)
    ELSE FormatInt(halves \div 2) \o <<".", "5">>

\* strconv.FormatBool
FormatBool(b) == IF b THEN <<"t", "r", "u", "e">> ELSE <<"f", "a", "l", "s", "e">>

\* field.IsExported(): the name starts with an upper-case letter
IsExported(field) == Ord(field.Name[1]) \in 65..90

\* a faulty variant: the json tag is looked at before the query tag
getParamName_JsonOverQuery(field) ==
    IF field.Tag.url # <<>> THEN SplitFirst(field.Tag.url)
    ELSE IF field.Tag.json # <<>> THEN SplitFirst(field.Tag.json)
    ELSE IF field.Tag.query # <<>> THEN SplitFirst(field.Tag.query)
    ELSE ToLower(field.Name)

\* getParamName: the url tag, else the query tag, else the json tag, else
\* the lower-cased field name
getParamName(field) ==
    IF field.Tag.url # <<>> THEN SplitFirst(field.Tag.url)
    ELSE IF field.Tag.query # <<>> THEN SplitFirst(field.Tag.query)
    ELSE IF field.Tag.json # <<>> THEN SplitFirst(field.Tag.json)
    ELSE ToLower(field.Name)

\* a faulty variant: a bool is never taken for a zero value
isZeroValue_BoolKept(v) ==
    CASE v.kind \in {"array", "map", "slice", "string"} -> Len(v.v) = 0
      [] v.kind = "int" -> v.v = 0
      [] v.kind = "uint" -> v.v = 0
      [] v.kind = "float64" -> v.v = 0
      [] v.kind \in {"interface", "ptr"} -> v.v = <<>>
      [] OTHER -> FALSE

\* isZeroValue
isZeroValue(v) ==
    CASE v.kind \in {"array", "map", "slice", "string"} -> Len(v.v) = 0
      [] v.kind = "bool" -> ~v.v
      [] v.kind = "int" -> v.v = 0
      [] v.kind = "uint" -> v.v = 0
      [] v.kind = "float64" -> v.v = 0
      [] v.kind \in {"interface", "ptr"} -> v.v = <<>>
      [] OTHER -> FALSE

\* fmt.Sprintf("%v", ...) of a struct without fields
Sprintf_v(v) == <<"{", "}">>

\* a faulty variant: the elements of a slice that hold a zero value are
\* skipped, as fields are
RECURSIVE fieldToStrings_SkipZeroElems(_)
fieldToStrings_SkipZeroElems(v) ==
    LET RECURSIVE Each(_)
        Each(elems) ==
            IF elems = <<>> THEN <<>>
            ELSE (IF isZeroValue(Head(elems)) THEN <<>>
                  ELSE fieldToStrings_SkipZeroElems(Head(elems))) \o Each(Tail(elems))
    IN
    CASE v.kind = "string" -> <<v.v>>
      [] v.kind = "int" -> <<FormatInt(v.v)>>
      [] v.kind = "uint" -> <<FormatInt(v.v)>>
      [] v.kind = "float64" -> <<FormatFloat(v.v)>>
      [] v.kind = "bool" -> <<FormatBool(v.v)>>
      [] v.kind \in {"slice", "array"} -> Each(v.v)
      [] v.kind = "ptr" -> IF v.v = <<>> THEN <<>>
                           ELSE fieldToStrings_SkipZeroElems(v.v[1])
      [] OTHER -> <<Sprintf_v(v)>>

\* fieldToStrings
RECURSIVE fieldToStrings(_)
fieldToStrings(v) ==
    LET RECURSIVE Each(_)
        Each(elems) ==
            IF elems = <<>> THEN <<>>
            ELSE fieldToStrings(Head(elems)) \o Each(Tail(elems))
    IN
    CASE v.kind = "string" -> <<v.v>>
      [] v.kind = "int" -> <<FormatInt(v.v)>>
      [] v.kind = "uint" -> <<FormatInt(v.v)>>
      [] v.kind = "float64" -> <<FormatFloat(v.v)>>
      [] v.kind = "bool" -> <<FormatBool(v.v)>>
      [] v.kind \in {"slice", "array"} -> Each(v.v)
      [] v.kind = "ptr" -> IF v.v = <<>> THEN <<>> ELSE fieldToStrings(v.v[1])
      [] OTHER -> <<Sprintf_v(v)>>

\* url.Values{}: a map from a key to the values added under it, in order
Values_Empty == <<>>

\* url.Values.Add
Values_Add(params, key, value) ==
    IF key \in DOMAIN params
    THEN [params EXCEPT ![key] = Append(@, value)]
    ELSE [k \in DOMAIN params \cup {key} |->
            IF k = key THEN <<value>> ELSE params[k]]

\* the order of Go strings: byte-wise
RECURSIVE StringLess(_, _)
StringLess(a, b) ==
    IF b = <<>> THEN FALSE
    ELSE IF a = <<>> THEN TRUE
    ELSE IF Head(a) # Head(b) THEN Ord(Head(a)) < Ord(Head(b))
    ELSE StringLess(Tail(a), Tail(b))

\* url.Values.Encode: "key=value" for each value of each key, the keys
\* sorted, both escaped, joined by "&"
Values_Encode(params) ==
    LET RECURSIVE Sorted(_)
        Sorted(keys) ==
            IF keys = {} THEN <<>>
            ELSE LET least == CHOOSE k \in keys :
                                \A other \in keys \ {k} : StringLess(k, other)
                 IN <<least>> \o Sorted(keys \ {least})
        RECURSIVE Pairs(_, _)
        Pairs(key, vals) ==
            IF vals = <<>> THEN <<>>
            ELSE <<QueryEscape(key) \o "=" \o QueryEscape(Head(vals))>>
                 \o Pairs(key, Tail(vals))
        RECURSIVE All(_)
        All(keys) ==
            IF keys = <<>> THEN <<>>
            ELSE Pairs(Head(keys), params[Head(keys)]) \o All(Tail(keys))
        RECURSIVE Joined(_)
        Joined(parts) ==
            IF parts = <<>> THEN ""
            ELSE IF Len(parts) = 1 THEN Head(parts)
            ELSE Head(parts) \o "&" \o Joined(Tail(parts))
    IN Joined(All(Sorted(DOMAIN params)))

\* the loop over the fields of the struct
RECURSIVE StructToQueryParams_Fields(_, _)
StructToQueryParams_Fields(fields, params) ==
    IF fields = <<>> THEN params
    ELSE LET field == Head(fields)
             paramName == getParamName(field)
             RECURSIVE AddAll(_, _)
             AddAll(values, ps) ==
                 IF values = <<>> THEN ps
                 ELSE AddAll(Tail(values), Values_Add(ps, paramName, Head(values)))
         IN StructToQueryParams_Fields(Tail(fields),
                IF ~IsExported(field) THEN params
                ELSE IF paramName = <<>> \/ paramName = <<"-">> THEN params
                ELSE IF isZeroValue(field.Value) THEN params
                ELSE AddAll(fieldToStrings(field.Value), params))

\* StructToQueryParams(input); a nil interface has kind "nil"
StructToQueryParams(input) ==
    IF input.kind = "nil" THEN ""
    ELSE IF input.kind = "ptr" /\ input.v = <<>> THEN ""
    ELSE LET v == IF input.kind = "ptr" THEN input.v[1] ELSE input IN
         IF v.kind # "struct" THEN ""
         ELSE Values_Encode(StructToQueryParams_Fields(v.v, Values_Empty))

\* url.ParseQuery, with which the tests read the encoder's output: the
\* pairs "key=value" between "&", unescaped, as a map from each key to its
\* values in the order they appear
ParseQuery(query) ==
    LET chars == [i \in 1..Len(query) |-> SubSeq(query, i, i)]
        Hex(a, b) == CASE <<a, b>> = <<"2", "6">> -> "&"
                       [] <<a, b>> = <<"2", "F">> -> "/"
                       [] <<a, b>> = <<"3", "D">> -> "="
                       [] <<a, b>> = <<"2", "C">> -> ","
                       [] <<a, b>> = <<"7", "B">> -> "{"
                       [] <<a, b>> = <<"7", "D">> -> "}"
                       [] <<a, b>> = <<"2", "5">> -> "%"
        RECURSIVE Unescape(_)
        Unescape(t) ==
            IF t = <<>> THEN <<>>
            ELSE IF Head(t) = "+" THEN <<" ">> \o Unescape(Tail(t))
            ELSE IF Head(t) = "%" THEN <<Hex(t[2], t[3])>> \o Unescape(SubSeq(t, 4, Len(t)))
            ELSE <<Head(t)>> \o Unescape(Tail(t))
        \* the text before the first separator, and the text after it
        RECURSIVE Before(_, _)
        Before(t, sep) ==
            IF t = <<>> \/ Head(t) = sep THEN <<>>
            ELSE <<Head(t)>> \o Before(Tail(t), sep)
        After(t, sep) == SubSeq(t, Len(Before(t, sep)) + 2, Len(t))
        RECURSIVE Parse(_, _)
        Parse(t, m) ==
            IF t = <<>> THEN m
            ELSE LET pair == Before(t, "&")
                     key == Unescape(Before(pair, "="))
                     value == Unescape(After(pair, "="))
                 IN Parse(After(t, "&"),
                          IF pair = <<>> THEN m ELSE Values_Add(m, key, value))
    IN Parse(chars, Values_Empty)

\* struct tags: the url, query and json keys, each absent, naming the
\* parameter, naming it with an option, or excluding the field
Tags ==
    [url : {<<>>, <<"u">>, <<"-">>},
     query : {<<>>, <<"q">>, <<"q", ",", "o">>},
     json : {<<>>, <<"j">>, <<"-">>, <<",", "o">>}]

SlicesOf(elems) == {SliceValue(e) : e \in BoundedSeq(elems, MaxElems)}

\* the values a field may hold: of each supported kind its zero value and
\* others, pointers, slices of strings, numbers and pointers, and a struct
FieldValues ==
    {StringValue(str) : str \in {<<>>, <<"a">>, <<"a", " ">>}}
    \cup {IntValue(n) : n \in {0, 12, 0 - 3}}
    \cup {UintValue(n) : n \in {0, 7}}
    \cup {BoolValue(b) : b \in BOOLEAN}
    \cup {Float64Value(h) : h \in {0, 3}}
    \cup {NilPointer, PointerTo(StringValue(<<>>)), PointerTo(StringValue(<<"a">>)),
          PointerTo(IntValue(0))}
    \cup SlicesOf({StringValue(<<>>), StringValue(<<"a">>)})
    \cup SlicesOf({IntValue(0), IntValue(12)})
    \cup SlicesOf({NilPointer, PointerTo(StringValue(<<"a">>))})
    \cup {StructValue(<<>>)}

\* a field: exported or not, with any tags and any value
Fields == [Name : {<<"N">>, <<"t">>}, Tag : Tags, Value : FieldValues]

\* the fields a struct may hold next to it
OtherFields ==
    {[Name |-> <<"N", "a">>, Tag |-> [url |-> <<>>, query |-> <<>>, json |-> <<>>],
      Value |-> StringValue(<<"a">>)],
     [Name |-> <<"N", "a">>, Tag |-> [url |-> <<>>, query |-> <<>>, json |-> <<"j">>],
      Value |-> IntValue(12)],
     [Name |-> <<"N", "a">>, Tag |-> [url |-> <<>>, query |-> <<>>, json |-> <<"a">>],
      Value |-> SliceValue(<<StringValue(<<"d">>)>>)],
     [Name |-> <<"N", "a">>, Tag |-> [url |-> <<>>, query |-> <<>>, json |-> <<>>],
      Value |-> IntValue(0)]}

Structs ==
    {StructValue(<<>>)} \cup {StructValue(<<f>>) : f \in Fields}
    \cup {StructValue(<<f, g>>) : f \in Fields, g \in OtherFields}
    \cup {StructValue(<<g, f>>) : f \in Fields, g \in OtherFields}

\* the inputs of StructToQueryParams: structs, pointers to one, and what
\* is not a struct
EncoderInputs ==
    Structs \cup {[kind |-> "nil", v |-> <<>>], NilPointer, StringValue(<<"a">>),
                  IntValue(12), PointerTo(IntValue(12))}
    \cup {PointerTo(StructValue(<<f>>)) : f \in OtherFields}

\* a caller calls StructToQueryParams
StructToQueryParams_Call ==
    /\ opIn = NoOp
    /\ \E input \in EncoderInputs :
        /\ opIn' = [op |-> "StructToQueryParams", name |-> <<>>, data |-> <<>>,
                    options |-> <<>>, input |-> input]
        /\ opRet' = [response |-> StructToQueryParams(input), err |-> NilErr]
    /\ UNCHANGED <<options, transport, resultTarget>>
    /\ UNCHANGED <<execVars, frames>>

EncoderInit == OpIdle /\ ExecIdle

EncoderNext == StructToQueryParams_Call

EncoderSpec == EncoderInit /\ [][EncoderNext]_vars

(***************************************************************************)
(* Properties of the endpoint operations.                                  *)
(***************************************************************************)
SentEvents == opIn.op = "SendEvents"
Analyzed == opIn.op = "Analyze"

\* the caller's options of the SendEvents invoked (when it passed some)
GivenOptions == opIn.options[1]

BaseURL == options.Protocol \o "://" \o options.Host \o "/" \o options.ApiVersion

\* C6: SendEvents with Compress set and a CompressionEncoding other than
\* "", "gzip" and "zstd" returns "unsupported compression encoding: <name>"
\* with a nil response and calls the transport zero times.
C6_UnsupportedEncodingNoCall ==
    (/\ SentEvents
     /\ opIn.options # NilPtr
     /\ GivenOptions.Compress
     /\ GivenOptions.CompressionEncoding \notin {"", "gzip", "zstd"})
    => /\ Len(opRet.err) = 1
       /\ opRet.err[1].msg =
            "unsupported compression encoding: " \o GivenOptions.CompressionEncoding
       /\ opRet.response = NilPtr
       /\ transport = <<>>

\* SendEvents was asked for lz4 with a payload and returned the error
C6_Witness ==
    /\ SentEvents
    /\ opIn.options # NilPtr
    /\ GivenOptions.Compress
    /\ GivenOptions.CompressionEncoding = "lz4"
    /\ Len(opIn.data) = MaxDataLen
    /\ opRet.err = <<[msg |-> "unsupported compression encoding: lz4",
                      status |-> 0, body |-> ""]>>

\* what the codec named by a content-encoding tag decodes a body to
DecodedBy(tag, body) ==
    CASE tag = "gzip" -> GzipDecode(body)
      [] tag = "zstd" -> ZstdDecode(body)
      [] OTHER -> [ok |-> FALSE, data |-> <<>>]

\* C7: SendEvents with Compress set makes one PostRaw call whose
\* content-encoding tag names the codec asked for, gzip when none is named;
\* with no codec named the body is the gzip encoding of the input; and the
\* codec the tag names decodes the transmitted body to the caller's bytes.
C7_CompressedBodyRoundTrips ==
    (/\ SentEvents
     /\ opIn.options # NilPtr
     /\ GivenOptions.Compress
     /\ GivenOptions.CompressionEncoding \in {"", "gzip", "zstd"})
    => /\ Len(transport) = 1
       /\ transport[1].verb = "PostRaw"
       /\ GivenOptions.CompressionEncoding = ""
            => /\ transport[1].contentEncoding = "gzip"
               /\ transport[1].body = GzipEncode(opIn.data)
       /\ GivenOptions.CompressionEncoding # ""
            => transport[1].contentEncoding = GivenOptions.CompressionEncoding
       /\ DecodedBy(transport[1].contentEncoding, transport[1].body)
            = [ok |-> TRUE, data |-> opIn.data]

\* SendEvents compressed a payload of the longest kind with the default
\* codec, and the body it sent differs from the payload
C7_Witness ==
    /\ SentEvents
    /\ opIn.options # NilPtr
    /\ GivenOptions.Compress
    /\ GivenOptions.CompressionEncoding = ""
    /\ Len(opIn.data) = MaxDataLen
    /\ Len(transport) = 1
    /\ transport[1].contentEncoding = "gzip"
    /\ transport[1].body # opIn.data

\* C8: SendEvents with nil options makes exactly one PostRaw call, to
\* <protocol>://<host>/<version>/events?name=<escaped name> and nothing
\* after it, with the caller's bytes as the body, content type
\* application/x-ndjson and no content encoding.
C8_NilOptionsDefaults ==
    (SentEvents /\ opIn.options = NilPtr)
    => /\ Len(transport) = 1
       /\ transport[1].verb = "PostRaw"
       /\ transport[1].url = BaseURL \o "/events?name=" \o QueryEscape(opIn.name)
       /\ transport[1].body = opIn.data
       /\ transport[1].contentType = "application/x-ndjson"
       /\ transport[1].contentEncoding = ""

\* SendEvents was called with nil options on the tests' client, for a name
\* that needs escaping
C8_Witness ==
    /\ SentEvents
    /\ opIn.options = NilPtr
    /\ opIn.name = <<"d", "&">>
    /\ Len(opIn.data) = MaxDataLen
    /\ Len(transport) = 1
    /\ transport[1].url = "https://api.tinybird.co/v0/events?name=d%26"

AnalyzeURL == BaseURL \o "/analyze"

\* C9 as stated: a string input issues one read request (the transport's
\* Get, an HTTP GET) to <base>/analyze?url=<escaped>, without a body and
\* never a multipart upload; a []byte input issues one multipart upload of
\* field "file" to <base>/analyze.
C9_StringIsReadRequest ==
    /\ (Analyzed /\ opIn.input.type = "string")
       => /\ Len(transport) = 1
          /\ transport[1].verb = "Get"
          /\ VerbMethod(transport[1].verb) = "GET"
          /\ transport[1].url = AnalyzeURL \o "?url=" \o QueryEscape(opIn.input.str)
          /\ transport[1].body = <<>>
    /\ (Analyzed /\ opIn.input.type = "[]uint8")
       => /\ Len(transport) = 1
          /\ transport[1].verb = "PostMultipart"
          /\ transport[1].fieldName = "file"
          /\ transport[1].url = AnalyzeURL

\* C9, amended: a string input issues one PostRaw call (an HTTP POST) to
\* <base>/analyze?url=<escaped>, with no body, no content type and no
\* content encoding, and never a multipart upload; a []byte input issues
\* one multipart upload of its bytes as field "file" to <base>/analyze and
\* never the url-parameter request.
C9_AnalyzeDispatch ==
    /\ (Analyzed /\ opIn.input.type = "string")
       => /\ Len(transport) = 1
          /\ transport[1].verb = "PostRaw"
          /\ VerbMethod(transport[1].verb) = "POST"
          /\ transport[1].url = AnalyzeURL \o "?url=" \o QueryEscape(opIn.input.str)
          /\ transport[1].body = <<>>
          /\ transport[1].contentType = ""
          /\ transport[1].contentEncoding = ""
    /\ (Analyzed /\ opIn.input.type = "[]uint8")
       => /\ Len(transport) = 1
          /\ transport[1].verb = "PostMultipart"
          /\ transport[1].fieldName = "file"
          /\ transport[1].url = AnalyzeURL
          /\ transport[1].body = opIn.input.bytes

\* Analyze was given a remote URL that needs escaping, on the tests' client
C9_Witness ==
    /\ Analyzed
    /\ opIn.input.type = "string"
    /\ opIn.input.str = <<"d", "/">>
    /\ Len(transport) = 1
    /\ transport[1].url = "https://api.tinybird.co/v0/analyze?url=d%2F"

\* C10: Analyze with an input that is neither []byte nor string returns an
\* "unsupported input type" error with a nil response and calls the
\* transport zero times.
C10_UnsupportedInputNoCall ==
    (Analyzed /\ opIn.input.type \notin {"[]uint8", "string"})
    => /\ Len(opRet.err) = 1
       /\ opRet.err[1].msg =
            "unsupported input type: expected []byte or string, got " \o opIn.input.type
       /\ opRet.response = NilPtr
       /\ transport = <<>>

\* Analyze was given an int and returned the error
C10_Witness ==
    /\ Analyzed
    /\ opIn.input.type = "int"
    /\ opRet.response = NilPtr
    /\ opRet.err = <<[msg |-> "unsupported input type: expected []byte or string, got int",
                      status |-> 0, body |-> ""]>>

CalledEndpoint == opIn.op = "CallEndpoint"

\* C11: when the exchange succeeds and the caller handed CallEndpoint a
\* decode target, that target holds the metadata, rows, row count and
\* statistics decoded from the response body.
C11_CallerReceivesDecoded ==
    (CalledEndpoint /\ opRet.err = NilErr /\ opIn.input # NilPtr)
    => /\ Len(transport) = 1
       /\ resultTarget = transport[1].decoded
       /\ resultTarget.Meta # <<>>
       /\ resultTarget.Rows = 1

(***************************************************************************)
(* Properties of the client options.                                       *)
(***************************************************************************)
BuiltOptions == opIn.op = "NewClientOptions"

\* the ClientOptions the constructor returned
Returned == opRet.response[1]

\* the options of the list that set the given field
Setting(opts, field) == {i \in 1..Len(opts) : opts[i].field = field}

\* the documented default of a field; the token's is $TINYBIRD_TOKEN
DocumentedDefault(field, env) ==
    CASE field = "Host" -> "api.tinybird.co"
      [] field = "Protocol" -> "https"
      [] field = "ApiVersion" -> "v0"
      [] field = "Token" -> env
      [] field = "Timeout" -> 15
      [] field = "MaxRetries" -> 3
      [] field = "RetryDelay" -> 2

\* C12: NewClientOptions returns, in every field an option was supplied
\* for, the value supplied (by the last such option), and puts the default
\* (15 s, v0, https, 3 retries, 2 s, the environment's token) only in
\* fields for which no option was supplied.
C12_DefaultsOnlyWhenUnset ==
    BuiltOptions =>
        \A field \in DOMAIN ClientOptions_Zero :
            LET set == Setting(opIn.options, field) IN
            /\ set # {} =>
                  Returned[field] =
                      opIn.options[CHOOSE i \in set : \A j \in set : j <= i].value
            /\ (set = {} /\ field # "Host") =>
                  Returned[field] = DocumentedDefault(field, opIn.input)

\* how many times a text occurs in a URL
Occurrences(sub, url) ==
    Cardinality({i \in 1..(Len(url) - Len(sub) + 1) :
                    SubSeq(url, i, i + Len(sub) - 1) = sub})

\* the options SendEvents worked with: the caller's, or none set
EffectiveOptions ==
    IF opIn.options = NilPtr
    THEN [Wait |-> FALSE, Compress |-> FALSE, CompressionEncoding |-> "", Format |-> <<>>]
    ELSE GivenOptions

\* the text of a URL after its first n characters
After(url, n) == SubSeq(url, n + 1, Len(url))

\* C19: the URL SendEvents hands to the transport starts with
\* <base>/events?name=<escaped name>; what follows starts with &wait=true
\* if Wait is set, and else the URL holds no &wait=true; what follows that
\* is &format=<escaped format> if Format is not empty, and else nothing.
\* The content type is application/json if Format is "json", and else
\* application/x-ndjson.
C19_EventsURL ==
    (SentEvents /\ Len(transport) = 1) =>
        LET url == transport[1].url
            head == BaseURL \o "/events?name=" \o QueryEscape(opIn.name)
            rest == After(url, Len(head))
            wait == "&wait=true"
            tail == IF EffectiveOptions.Wait THEN After(rest, Len(wait)) ELSE rest
        IN /\ SubSeq(url, 1, Len(head)) = head
           /\ IF EffectiveOptions.Wait
              THEN SubSeq(rest, 1, Len(wait)) = wait
              ELSE Occurrences(wait, url) = 0
           /\ IF EffectiveOptions.Format # <<>>
              THEN tail = "&format=" \o QueryEscape(EffectiveOptions.Format)
              ELSE tail = ""
           /\ transport[1].contentType =
                IF EffectiveOptions.Format = <<"j", "s", "o", "n">>
                THEN "application/json" ELSE "application/x-ndjson"

\* SendEvents was called with Wait set and a format that needs escaping
C19_Witness ==
    /\ SentEvents
    /\ opIn.options # NilPtr
    /\ GivenOptions.Wait
    /\ GivenOptions.Format = <<"a", "&">>
    /\ opIn.name = <<"d", " ">>
    /\ Len(transport) = 1
    /\ transport[1].url = "https://api.tinybird.co/v0/events?name=d+&wait=true&format=a%26"
    /\ transport[1].contentType = "application/x-ndjson"

\* C18: when the transport call of SendEvents, CallEndpoint or Analyze
\* returns an error, the operation returns that very error, not wrapped,
\* with a nil response, and that call is the only one it made.
C18_TransportErrorReturnedAsIs ==
    \A i \in 1..Len(transport) :
        transport[i].returned # NilErr
        => /\ SentEvents \/ CalledEndpoint \/ Analyzed
           /\ opRet.err = transport[i].returned
           /\ opRet.response = NilPtr
           /\ Len(transport) = 1

\* SendEvents returned the network error its PostRaw call returned
C18_Witness ==
    /\ SentEvents
    /\ Len(transport) = 1
    /\ transport[1].verb = "PostRaw"
    /\ transport[1].returned = NewError("network error")
    /\ opRet = [response |-> NilPtr, err |-> NewError("network error")]

\* the client's options are those DefaultClientOptions() returns, or those
\* NewClientOptions() returns when given no option
DefaultBuilt ==
    \E env \in Environments :
        options \in {DefaultClientOptions(env), NewClientOptions(<<>>, env)}

\* C13: on a client built from the default options the host is
\* 'api.tinybird.co', and every URL SendEvents, CallEndpoint and Analyze
\* hand to the transport begins 'https://api.tinybird.co/v0/' and holds the
\* scheme separator once.
C13_DefaultBaseURL ==
    (DefaultBuilt /\ (SentEvents \/ CalledEndpoint \/ Analyzed) /\ transport # <<>>) =>
        /\ options.Host = DocumentedDefault("Host", "")
        /\ \A i \in 1..Len(transport) :
              /\ SubSeq(transport[i].url, 1, 27) = "https://api.tinybird.co/v0/"
              /\ Occurrences("://", transport[i].url) = 1

(***************************************************************************)
(* Properties of the query encoder.                                        *)
(***************************************************************************)
Encoded == opIn.op = "StructToQueryParams"

\* the struct that was encoded, and its fields
EncodedStruct ==
    IF opIn.input.kind = "ptr" /\ opIn.input.v # <<>> THEN opIn.input.v[1] ELSE opIn.input
EncodedFields == EncodedStruct.v

\* the encoder's output as url.ParseQuery reads it
Output == ParseQuery(opRet.response)

Range(seq) == {seq[i] : i \in 1..Len(seq)}

\* an exported field that holds something to encode
Contributes(field) ==
    /\ Ord(field.Name[1]) \in 65..90
    /\ ~isZeroValue(field.Value)
    /\ fieldToStrings(field.Value) # <<>>

\* the field's name in lower case
LowerName(field) ==
    CASE field.Name = <<"N">> -> <<"n">>
      [] field.Name = <<"N", "a">> -> <<"n", "a">>
      [] OTHER -> field.Name

\* the names the tag priority allows a field: that of its query-transport
\* tag (url or query) if it carries one, else that of its json tag if it
\* carries one, else its lower-case name
PriorityNames(field) ==
    IF field.Tag.url # <<>> \/ field.Tag.query # <<>>
    THEN {SplitFirst(t) : t \in {field.Tag.url, field.Tag.query} \ {<<>>}}
    ELSE IF field.Tag.json # <<>> THEN {SplitFirst(field.Tag.json)}
    ELSE {LowerName(field)}

\* C14: in the encoder's output every exported field that holds something
\* to encode appears under the name of its query-transport tag if it has
\* one, whatever its json tag; else under the name of its json tag; else
\* under its lower-case name; and a field so named "-" does not appear.
C14_TagPriority ==
    (Encoded /\ opIn.input.kind = "struct") =>
        \A i \in 1..Len(EncodedFields) :
            LET field == EncodedFields[i] IN
            Contributes(field) =>
                \E name \in PriorityNames(field) :
                    IF name = <<"-">>
                    THEN /\ name \notin DOMAIN Output
                         /\ Len(EncodedFields) = 1 => opRet.response = ""
                    ELSE name # <<>> =>
                           /\ name \in DOMAIN Output
                           /\ Range(fieldToStrings(field.Value)) \subseteq Range(Output[name])

\* a field tagged query:"q,o" json:"j" and holding 12 was encoded as q=12
C14_Witness ==
    /\ Encoded
    /\ opIn.input.kind = "struct"
    /\ Len(EncodedFields) = 1
    /\ EncodedFields[1].Tag = [url |-> <<>>, query |-> <<"q", ",", "o">>, json |-> <<"j">>]
    /\ EncodedFields[1].Value = IntValue(12)
    /\ opRet.response = "q=12"

\* the zero values: the empty string, the zero numbers, false, the nil
\* pointer, the empty or nil slice
ZeroValues ==
    {StringValue(<<>>), IntValue(0), UintValue(0), Float64Value(0), BoolValue(FALSE),
     NilPointer, SliceValue(<<>>)}

\* how many values the fields other than the i-th put under a key
RECURSIVE OthersUnder(_, _, _)
OthersUnder(key, i, j) ==
    IF j > Len(EncodedFields) THEN 0
    ELSE (IF j # i /\ Contributes(EncodedFields[j])
             /\ getParamName(EncodedFields[j]) = key
          THEN Len(fieldToStrings(EncodedFields[j].Value)) ELSE 0)
         + OthersUnder(key, i, j + 1)

\* C15: a struct whose exported fields all hold a zero value encodes to
\* the empty string; and a field that holds a zero value adds nothing to
\* the output, whatever its tags: every key of the output holds just the
\* values of the other fields.
C15_ZeroValuesOmitted ==
    (Encoded /\ EncodedStruct.kind = "struct") =>
        /\ (\A i \in 1..Len(EncodedFields) :
               Ord(EncodedFields[i].Name[1]) \in 65..90
               => EncodedFields[i].Value \in ZeroValues)
           => opRet.response = ""
        /\ \A i \in 1..Len(EncodedFields) :
              EncodedFields[i].Value \in ZeroValues
              => \A key \in DOMAIN Output : Len(Output[key]) = OthersUnder(key, i, 1)

\* a struct of two tagged, exported fields holding false and 0 was encoded
C15_Witness ==
    /\ Encoded
    /\ EncodedStruct.kind = "struct"
    /\ Len(EncodedFields) = 2
    /\ EncodedFields[1].Name = <<"N">>
    /\ EncodedFields[1].Tag.json = <<"j">>
    /\ EncodedFields[1].Value = BoolValue(FALSE)
    /\ EncodedFields[2].Value = IntValue(0)
    /\ opRet.response = ""

\* an exported field whose name does not omit it and that holds a slice
\* with elements
SliceField(field) ==
    /\ Ord(field.Name[1]) \in 65..90
    /\ getParamName(field) \notin {<<>>, <<"-">>}
    /\ field.Value.kind = "slice"
    /\ Len(field.Value.v) > 0

\* how many values the fields before the i-th put under a key
RECURSIVE EarlierUnder(_, _, _)
EarlierUnder(key, i, j) ==
    IF j >= i THEN 0
    ELSE (IF Contributes(EncodedFields[j]) /\ getParamName(EncodedFields[j]) = key
          THEN Len(fieldToStrings(EncodedFields[j].Value)) ELSE 0)
         + EarlierUnder(key, i, j + 1)

\* the text of an element: a string as it is, a number in decimal, and
\* what a pointer points to
RECURSIVE ElemString(_)
ElemString(e) ==
    CASE e.kind = "string" -> e.v
      [] e.kind \in {"int", "uint"} -> FormatInt(e.v)
      [] e.kind = "ptr" /\ e.v # <<>> -> ElemString(e.v[1])
      [] OTHER -> <<>>

\* the output holds, under the field's name and after the values of the
\* fields before it, the texts of the given elements in their order, and
\* no other value of this field
HoldsInOrder(i, elems) ==
    LET name == getParamName(EncodedFields[i])
        base == EarlierUnder(name, i, 1)
    IN /\ name \in DOMAIN Output
       /\ Len(Output[name]) = OthersUnder(name, i, 1) + Len(elems)
       /\ \A p \in 1..Len(elems) : Output[name][base + p] = ElemString(elems[p])

\* C16 as stated: a slice of length k >= 1 is encoded as exactly k values
\* under the field's name, one per element, in the order of the elements.
C16_SliceExpandsPerElement ==
    (Encoded /\ EncodedStruct.kind = "struct") =>
        \A i \in 1..Len(EncodedFields) :
            SliceField(EncodedFields[i]) => HoldsInOrder(i, EncodedFields[i].Value.v)

\* C16, amended: a slice of length k >= 1 of strings or numbers is encoded
\* as exactly k values under the field's name, one per element, those
\* holding a zero value included, in the order of the elements; of a
\* slice of pointers the nil elements are left out, and the others are
\* encoded one value each, in their order.
C16_SliceExpandsPerPresentElement ==
    (Encoded /\ EncodedStruct.kind = "struct") =>
        \A i \in 1..Len(EncodedFields) :
            LET elems == EncodedFields[i].Value.v IN
            SliceField(EncodedFields[i]) =>
                IF \A p \in 1..Len(elems) : elems[p] # NilPointer
                THEN HoldsInOrder(i, elems)
                ELSE IF \A p \in 1..Len(elems) : elems[p] = NilPointer
                THEN getParamName(EncodedFields[i]) \in DOMAIN Output
                       => HoldsInOrder(i, <<>>)
                ELSE HoldsInOrder(i, SelectSeq(elems, LAMBDA e : e # NilPointer))

\* the slice (0, 12) tagged json:"j" was encoded as j=0&j=12
C16_Witness ==
    /\ Encoded
    /\ EncodedStruct.kind = "struct"
    /\ Len(EncodedFields) = 1
    /\ EncodedFields[1].Value = SliceValue(<<IntValue(0), IntValue(12)>>)
    /\ EncodedFields[1].Tag.json = <<"j">>
    /\ opRet.response = "j=0&j=12"

====
